---- MODULE Spec2Model ----
(***************************************************************************)
(* A model of Kichwa_info_Reconociendonos.py: a tkinter viewer that shows  *)
(* static content about the Kichwa people in a notebook of tabs.           *)
(*                                                                         *)
(* The file defines the class KichwaInfoSystem twice (lines 25 and 577);   *)
(* executing the module binds the name to the first definition and then    *)
(* rebinds it to the second, and main() instantiates whatever the name is  *)
(* bound to.  The model follows the module's execution: the two class      *)
(* statements, main(), the constructor's steps, the tab builders in the    *)
(* order create_widgets calls them, and then the event loop with the       *)
(* handlers the code registers.                                            *)
(*                                                                         *)
(* A Python dict is modelled as the sequence of its items in insertion     *)
(* order, each item a record [k |-> key, v |-> value]; a list is a         *)
(* sequence.  The texts are the literals of the source.                    *)
(***************************************************************************)
EXTENDS Integers, Sequences, FiniteSets

\* ------------------------------------------------------------ bounds

\* The clock of the host advances at most this many days during a run.
MaxDay == 1

\* A canvas can be scrolled to the positions 0..MaxScroll.
MaxScroll == 1

\* The event loop serves at most this many events of the user interface in a
\* run, before the window is closed.
MaxEvents == 4

\* ------------------------------------------------------------ dicts

\* The keys of a dict, as a set.
Keys(d) == {d[i].k : i \in 1..Len(d)}

\* key in d
HasKey(d, key) == \E i \in 1..Len(d) : d[i].k = key

\* The value d[key] of a dict that has the key.
Value(d, key) == d[CHOOSE i \in 1..Len(d) : d[i].k = key].v

\* The subscript of a dict that stores and hands back an empty default for a
\* key it does not have, as collections.defaultdict(dict) does.
Subscript_defaultdict(d, key) ==
   IF HasKey(d, key)
   THEN [err |-> "none", found |-> TRUE, d |-> d]
   ELSE [err |-> "none", found |-> FALSE, d |-> Append(d, [k |-> key, v |-> <<>>])]

\* d[key], the subscript of a plain dict (line 801 and every other place
\* self.kichwa_data[...] or self.colors[...] is read): the value when the key
\* is present, a raised KeyError when it is not.  Nothing is stored either way.
Subscript(d, key) ==
   IF HasKey(d, key)
   THEN [err |-> "none", found |-> TRUE, d |-> d]
   ELSE [err |-> "KeyError", found |-> FALSE, d |-> d]

\* ------------------------------------------------------------ content

\* load_kichwa_data, the value under "informacion_general" (source lines 603-614)
data_informacion_general ==
   <<
      [k |-> "introduccion",
       v |-> "Los Kichwas constituyen el grupo indígena más numeroso de Ecuador. Son herederos de una rica tradición cultural que ha evolucionado desde tiempos precolombinos, fusionando elementos andinos ancestrales con influencias posteriores. Se caracterizan por mantener viva su identidad a través de su idioma, prácticas comunitarias, vestimenta tradicional, artesanías, música y cosmovisión."],
      [k |-> "historia",
       v |-> "Los Kichwas ecuatorianos son descendientes de los pueblos que habitaban la región andina antes de la llegada de los incas y los españoles. Durante el Imperio Inca (siglo XV), muchos grupos indígenas fueron 'kichwaizados' como parte de la política de unificación cultural. Con la colonización española, los Kichwas enfrentaron opresión y transformaciones sociales profundas, pero lograron preservar elementos fundamentales de su cultura. Durante los siglos XX y XXI, han protagonizado importantes movimientos de reivindicación política y cultural."],
      [k |-> "distribucion_geografica",
       v |-> "Los pueblos Kichwas se distribuyen principalmente en la región andina (Sierra) y en partes de la Amazonía ecuatoriana. Cada región presenta variaciones culturales específicas que reflejan adaptaciones a diferentes entornos ecológicos y procesos históricos particulares."],
      [k |-> "caracteristicas_culturales",
       v |-> <<
          "Organización social basada en comunidades y el ayllu (familia extendida).",
          "Economía tradicional centrada en la agricultura, complementada con ganadería y artesanía.",
          "Prácticas de reciprocidad y trabajo comunitario (minga).",
          "Vestimenta distintiva que varía según la región, con elementos simbólicos.",
          "Celebración de fiestas vinculadas al calendario agrícola y religioso."
       >>]
   >>

\* load_kichwa_data, the value under "regiones" (source lines 615-627)
data_regiones ==
   <<
      [k |-> "introduccion",
       v |-> "Los Kichwas ecuatorianos se distribuyen en distintas regiones geográficas, cada una con características culturales particulares que reflejan adaptaciones a diferentes entornos ecológicos."],
      [k |-> "pueblos",
       v |-> <<
          [k |-> "Kichwas de la Sierra",
           v |-> <<
              [k |-> "descripcion",
               v |-> "Habitan las provincias andinas desde Imbabura hasta Loja. Se caracterizan por sus tradiciones agrícolas, textiles y cerámicas. Cada comunidad presenta variaciones en vestimenta, dialectos y prácticas culturales específicas."],
              [k |-> "comunidades",
               v |-> <<
                  "Otavalo",
                  "Karanki",
                  "Kayambi",
                  "Kitu Kara",
                  "Panzaleo",
                  "Chibuleo",
                  "Salasaka",
                  "Kisapincha",
                  "Tomabela",
                  "Puruhá",
                  "Kañari",
                  "Saraguro"
               >>]
           >>],
          [k |-> "Kichwas de la Amazonía",
           v |-> <<
              [k |-> "descripcion",
               v |-> "Se encuentran principalmente en las provincias de Napo, Pastaza, Orellana y Sucumbíos. Su cultura refleja una profunda conexión con el entorno selvático, combinando prácticas ancestrales con adaptaciones más recientes."],
              [k |-> "comunidades",
               v |-> <<"Napo Runa", "Pastaza Runa", "Canelos", "Quijos">>]
           >>]
       >>]
   >>

\* load_kichwa_data, the value under "idioma" (source lines 628-649)
data_idioma ==
   <<
      [k |-> "descripcion_general",
       v |-> "El Kichwa o Quichua (Runa Shimi - 'lengua de la gente') es una variante del quechua, familia lingüística que se extiende por varios países andinos. En Ecuador, presenta características propias que lo diferencian de otras variantes regionales."],
      [k |-> "caracteristicas",
       v |-> <<
          [k |-> "Estructura gramatical",
           v |-> "Lengua aglutinante donde las palabras se forman agregando sufijos a las raíces. El orden básico de la oración es Sujeto-Objeto-Verbo."],
          [k |-> "Fonología",
           v |-> "Sistema vocálico de tres fonemas (a, i, u) y consonantes que incluyen sonidos particulares como el sonido /sh/ y consonantes glotalizadas."],
          [k |-> "Léxico",
           v |-> "Rico en términos relacionados con la naturaleza, agricultura y relaciones sociales. Incluye numerosos conceptos que reflejan su cosmovisión única."]
       >>],
      [k |-> "variaciones_dialectales",
       v |-> "Existen importantes diferencias dialectales entre el Kichwa de la Sierra y el de la Amazonía. Incluso dentro de la Sierra, hay variaciones notables entre provincias. El dialecto de Imbabura, por ejemplo, difiere del hablado en Chimborazo o Cañar."],
      [k |-> "vocabulario_basico",
       v |-> <<
          <<"Hola", "Imanalla", "Imanalla (imanalya)">>,
          <<"Gracias", "Yupaychani", "Yupaychani (yupay-cha-ni)">>,
          <<"Sí", "Ari", "Ari">>,
          <<"No", "Mana", "Mana">>,
          <<"Agua", "Yaku", "Yaku">>,
          <<"Tierra", "Allpa", "Alypa">>,
          <<"Sol", "Inti", "Inti">>,
          <<"Luna", "Killa", "Kilya">>,
          <<"Hombre", "Kari", "Kari">>,
          <<"Mujer", "Warmi", "Warmi">>
       >>],
      [k |-> "estado_actual",
       v |-> "El Kichwa ecuatoriano es reconocido como idioma oficial de relación intercultural en la Constitución de 2008. Sin embargo, enfrenta desafíos para su preservación debido a factores como la discriminación histórica, la migración y la influencia dominante del español. Existen iniciativas educativas bilingües y esfuerzos para su revitalización, incluidos programas de educación intercultural bilingüe implementados por el Estado y organizaciones indígenas."]
   >>

\* load_kichwa_data, the value under "tradiciones" (source lines 650-672)
data_tradiciones ==
   <<
      [k |-> "introduccion",
       v |-> "Las tradiciones y costumbres de los pueblos Kichwas reflejan una cosmovisión única que integra elementos ancestrales con influencias posteriores. Estas prácticas culturales transmiten valores comunitarios y mantienen viva la identidad colectiva."],
      [k |-> "festividades",
       v |-> <<
          [k |-> "Inti Raymi (Fiesta del Sol)",
           v |-> "Celebrada en el solsticio de junio, marca el inicio del nuevo año agrícola. Incluye bailes, música, rituales de purificación y agradecimiento a la Pachamama (Madre Tierra) por las cosechas."],
          [k |-> "Pawkar Raymi",
           v |-> "Fiesta del florecimiento celebrada en febrero/marzo. Coincide con el carnaval y está asociada con el inicio de la floración del maíz."],
          [k |-> "Kulla Raymi",
           v |-> "Celebrada en septiembre, honra a la fertilidad femenina, la luna y la preparación de la tierra para nuevos cultivos."],
          [k |-> "Kapak Raymi",
           v |-> "Celebrada en diciembre, marca el solsticio de invierno y la renovación del poder comunal y político."]
       >>],
      [k |-> "vestimenta",
       v |-> "La vestimenta tradicional varía según la región pero mantiene elementos identificativos propios. Los hombres suelen usar poncho, sombrero y pantalón, mientras las mujeres visten anaco (falda), blusa bordada, fachalina (chal) y variedad de accesorios. Cada prenda tiene significados simbólicos relacionados con la identidad, estatus social y conexión comunitaria. Los colores y diseños transmiten mensajes sobre la procedencia, estado civil y posición en la comunidad."],
      [k |-> "artesanias",
       v |-> <<
          [k |-> "Textiles",
           v |-> "Los textiles Kichwas son reconocidos por sus técnicas, diseños y simbolismo. Destacan los tejidos de Otavalo, elaborados en telares tradicionales con motivos geométricos que representan elementos de su cosmología."],
          [k |-> "Cerámica",
           v |-> "La cerámica Kichwa se caracteriza por diseños que incorporan elementos de la naturaleza y símbolos ancestrales. Se utiliza tanto para fines utilitarios como ceremoniales."]
       >>],
      [k |-> "musica_danza",
       v |-> "La música y danza Kichwa expresan la conexión con la naturaleza, ciclos agrícolas y momentos importantes del ciclo vital. Géneros como el sanjuanito, yaraví y danzante acompañan celebraciones comunitarias y rituales. Los bailes suelen realizarse en círculos, representando la concepción cíclica del tiempo y la vida comunitaria."],
      [k |-> "instrumentos_musicales",
       v |-> <<
          "Rondador (flauta de pan)",
          "Pingullo (flauta vertical)",
          "Bocina (instrumento de viento hecho de caña)",
          "Chajchas (sonajeros)",
          "Bombo (tambor)",
          "Charango (instrumento de cuerda)"
       >>]
   >>

\* load_kichwa_data, the value under "cosmovision" (source lines 673-682)
data_cosmovision ==
   <<
      [k |-> "introduccion",
       v |-> "La cosmovisión Kichwa se basa en una comprensión del universo como un todo interconectado donde seres humanos, naturaleza y energías espirituales coexisten en relación recíproca. Esta visión del mundo orienta sus prácticas culturales, sociales y espirituales."],
      [k |-> "principios_fundamentales",
       v |-> <<
          [k |-> "Sumak Kawsay (Buen Vivir)",
           v |-> "Filosofía de vida que busca la armonía entre los seres humanos y la naturaleza. Propone un modelo de bienestar colectivo basado en la reciprocidad y respeto."],
          [k |-> "Relacionalidad",
           v |-> "Principio que establece que todo está conectado, nada existe aisladamente. Las personas, comunidades, naturaleza y cosmos forman una red de relaciones interdependientes."],
          [k |-> "Complementariedad",
           v |-> "Concepto que reconoce que los opuestos no se excluyen sino que se complementan y necesitan mutuamente. Se refleja en el par hombre-mujer, sol-luna, día-noche."]
       >>],
      [k |-> "relacion_naturaleza",
       v |-> "Para los Kichwas, la naturaleza (Pachamama) es un ser vivo con el que se mantiene una relación de reciprocidad y respeto. No se considera a la naturaleza como un recurso a explotar, sino como una madre que sustenta la vida y merece veneración. Antes de tomar de ella, se pide permiso mediante rituales y ofrendas específicas."],
      [k |-> "medicina_tradicional",
       v |-> "La medicina Kichwa integra conocimientos botánicos, rituales de sanación y comprensión de las energías. Los yachaks (sabios) y parteras cumplen roles fundamentales como mediadores entre el mundo material y espiritual. Las prácticas incluyen el uso de plantas medicinales, limpias energéticas y rituales que buscan restaurar el equilibrio entre cuerpo, mente y espíritu."]
   >>

\* load_kichwa_data, the value under "diseno_cultural" (source lines 683-695)
data_diseno_cultural ==
   <<
      [k |-> "introduccion",
       v |-> "Los elementos estéticos de la cultura Kichwa reflejan su cosmovisión, historia y relación con el entorno. Colores, formas y motivos transmiten significados profundos relacionados con su identidad cultural."],
      [k |-> "significado_colores",
       v |-> <<
          [k |-> "Rojo (Puka)",
           v |-> "Representa la tierra, la sangre, la fuerza y la vitalidad. Simboliza el poder y la energía de la Pachamama."],
          [k |-> "Dorado/Amarillo (Killu)",
           v |-> "Asociado con el sol (Inti), la abundancia, las cosechas y la riqueza espiritual."],
          [k |-> "Azul (Ankas)",
           v |-> "Simboliza el agua, el cielo y el espacio. Representa la sabiduría y el universo."],
          [k |-> "Verde (Waylla)",
           v |-> "Representa la naturaleza, las plantas y la renovación. Símbolo de fertilidad y vida."],
          [k |-> "Negro (Yana)",
           v |-> "Asociado con la oscuridad primordial, el misterio y la transformación."],
          [k |-> "Blanco (Yurak)",
           v |-> "Simboliza la pureza, la claridad y la conexión con el mundo espiritual."]
       >>],
      [k |-> "chakana",
       v |-> "La chakana (cruz andina) es un símbolo central en la cosmovisión Kichwa. Representa la conexión entre los mundos superior e inferior, así como los cuatro elementos y direcciones. Su diseño encarna el principio de ordenamiento del cosmos."],
      [k |-> "disenos_textiles",
       v |-> "Los textiles Kichwas incorporan diseños geométricos con significados específicos: espirales (ciclos de vida), zigzags (montañas y caminos), rombos (fertilidad), entre otros. Cada motivo transmite aspectos de su historia, territorio y concepción del universo."]
   >>

\* d with the value under the key it has replaced by v.
SetItem(d, key, v) ==
   [i \in 1..Len(d) |-> IF d[i].k = key THEN [k |-> key, v |-> v] ELSE d[i]]

\* The content with a topic that has been declared and left empty.
load_kichwa_data_empty_topic ==
   << [k |-> "informacion_general", v |-> data_informacion_general],
      [k |-> "regiones", v |-> data_regiones],
      [k |-> "idioma", v |-> data_idioma],
      [k |-> "tradiciones", v |-> data_tradiciones],
      [k |-> "cosmovision", v |-> <<>>],
      [k |-> "diseno_cultural", v |-> data_diseno_cultural] >>

\* The content with a vocabulary row that lacks its pronunciation.
load_kichwa_data_short_row ==
   LET rows == Value(data_idioma, "vocabulario_basico")
       short == [rows EXCEPT ![3] = <<"Sí", "Ari">>]
   IN  << [k |-> "informacion_general", v |-> data_informacion_general],
          [k |-> "regiones", v |-> data_regiones],
          [k |-> "idioma", v |-> SetItem(data_idioma, "vocabulario_basico", short)],
          [k |-> "tradiciones", v |-> data_tradiciones],
          [k |-> "cosmovision", v |-> data_cosmovision],
          [k |-> "diseno_cultural", v |-> data_diseno_cultural] >>

\* The content with the worldview topic lacking its field on medicine.
load_kichwa_data_no_medicina ==
   << [k |-> "informacion_general", v |-> data_informacion_general],
      [k |-> "regiones", v |-> data_regiones],
      [k |-> "idioma", v |-> data_idioma],
      [k |-> "tradiciones", v |-> data_tradiciones],
      [k |-> "cosmovision",
       v |-> SelectSeq(data_cosmovision,
                       LAMBDA item : item.k # "medicina_tradicional")],
      [k |-> "diseno_cultural", v |-> data_diseno_cultural] >>

\* self.load_kichwa_data() of the second class definition (lines 599-696): the
\* literal dict it returns.
load_kichwa_data ==
   << [k |-> "informacion_general", v |-> data_informacion_general],
      [k |-> "regiones", v |-> data_regiones],
      [k |-> "idioma", v |-> data_idioma],
      [k |-> "tradiciones", v |-> data_tradiciones],
      [k |-> "cosmovision", v |-> data_cosmovision],
      [k |-> "diseno_cultural", v |-> data_diseno_cultural] >>

\* ------------------------------------------------------------ classes

\* The methods each class statement defines (first: lines 25-569, second:
\* lines 577-1316).  A call self.m() of a method the class does not define
\* raises AttributeError.
MethodsOf(defn) ==
   IF defn = 1
   THEN {"__init__", "configure_styles", "create_widgets",
         "create_overview_tab", "create_regions_tab", "create_language_tab",
         "create_traditions_tab", "create_worldview_tab"}
   ELSE {"__init__", "load_kichwa_data", "configure_styles", "create_widgets",
         "show_about", "create_overview_tab", "create_regions_tab",
         "create_language_tab", "create_traditions_tab",
         "create_worldview_tab", "create_design_tab"}

\* The calls with the last one left out.
create_widgets_calls_drop_last(defn) ==
   <<"create_overview_tab", "create_regions_tab", "create_language_tab",
     "create_traditions_tab", "create_worldview_tab">>

\* The calls with two of them in each other's place.
create_widgets_calls_swapped(defn) ==
   <<"create_overview_tab", "create_language_tab", "create_regions_tab",
     "create_traditions_tab", "create_worldview_tab", "create_design_tab">>

\* The tab builders create_widgets calls, in the order of the calls (first
\* definition: lines 96-102, second: lines 747-752).
create_widgets_calls(defn) ==
   IF defn = 1
   THEN <<"create_overview_tab", "create_regions_tab", "create_language_tab",
          "create_traditions_tab", "create_worldview_tab",
          "create_demographics_tab", "create_cultural_design_tab">>
   ELSE <<"create_overview_tab", "create_regions_tab", "create_language_tab",
          "create_traditions_tab", "create_worldview_tab", "create_design_tab">>

\* ------------------------------------------------------------ styles

\* A table that also has the two colours the first definition looks up as
\* names.
colors_literal_names_colours(defn) ==
   << [k |-> "primary", v |-> "#8B2323"],
      [k |-> "secondary", v |-> "#CD853F"],
      [k |-> "accent", v |-> "#FFD700"],
      [k |-> "background", v |-> "#F5F5DC"],
      [k |-> "text", v |-> IF defn = 1 THEN "#8B2323" ELSE "#343e40"],
      [k |-> "highlight", v |-> "#228B22"],
      [k |-> "#8B2323", v |-> "#8B2323"],
      [k |-> "red", v |-> "red"] >>

\* self.colors as configure_styles assigns it (first definition: lines 52-59,
\* second: lines 703-710).  The two differ in 'text'.
colors_literal(defn) ==
   << [k |-> "primary", v |-> "#8B2323"],
      [k |-> "secondary", v |-> "#CD853F"],
      [k |-> "accent", v |-> "#FFD700"],
      [k |-> "background", v |-> "#F5F5DC"],
      [k |-> "text", v |-> IF defn = 1 THEN "#8B2323" ELSE "#343e40"],
      [k |-> "highlight", v |-> "#228B22"] >>

\* A colour argument written self.colors[name], and one written as a literal.
Tok(option, name) == [k |-> option, src |-> "token", arg |-> name]
Lit(option, value) == [k |-> option, src |-> "literal", arg |-> value]

\* The style calls of configure_styles after self.colors is set, with their
\* colour arguments in evaluation order (first definition: lines 62-78,
\* second: lines 713-729).  The last call is self.root.configure(bg=...).
style_calls(defn) ==
   IF defn = 1
   THEN << [call |-> "configure", style |-> "TFrame",
            opts |-> <<Tok("background", "#8B2323")>>],
           [call |-> "configure", style |-> "TNotebook",
            opts |-> <<Tok("background", "#8B2323")>>],
           [call |-> "configure", style |-> "TNotebook.Tab",
            opts |-> <<Tok("background", "secondary"), Tok("foreground", "red")>>],
           [call |-> "map", style |-> "TNotebook.Tab",
            opts |-> <<Tok("background", "primary"), Lit("foreground", "red")>>],
           [call |-> "configure", style |-> "TLabel",
            opts |-> <<Tok("background", "#8B2323"), Tok("foreground", "text")>>],
           [call |-> "configure", style |-> "Title.TLabel",
            opts |-> <<Tok("foreground", "primary")>>],
           [call |-> "configure", style |-> "Subtitle.TLabel",
            opts |-> <<Tok("foreground", "secondary")>>],
           [call |-> "configure", style |-> "TButton",
            opts |-> <<Tok("background", "#8B2323"), Lit("foreground", "red")>>],
           [call |-> "configure", style |-> "root",
            opts |-> <<Tok("bg", "#8B2323")>>] >>
   ELSE << [call |-> "configure", style |-> "TFrame",
            opts |-> <<Tok("background", "background")>>],
           [call |-> "configure", style |-> "TNotebook",
            opts |-> <<Tok("background", "background")>>],
           [call |-> "configure", style |-> "TNotebook.Tab",
            opts |-> <<Tok("background", "secondary"), Tok("foreground", "text")>>],
           [call |-> "map", style |-> "TNotebook.Tab",
            opts |-> <<Tok("background", "primary"), Lit("foreground", "red")>>],
           [call |-> "configure", style |-> "TLabel",
            opts |-> <<Tok("background", "background"), Tok("foreground", "text")>>],
           [call |-> "configure", style |-> "Title.TLabel",
            opts |-> <<Tok("foreground", "primary")>>],
           [call |-> "configure", style |-> "Subtitle.TLabel",
            opts |-> <<Tok("foreground", "secondary")>>],
           [call |-> "configure", style |-> "TButton",
            opts |-> <<Tok("background", "primary"), Lit("foreground", "red")>>],
           [call |-> "configure", style |-> "root",
            opts |-> <<Tok("bg", "background")>>] >>

\* The arguments of one call can all be evaluated: every self.colors[name]
\* among them names a key of the table.
CallEvaluates(c, cols) ==
   \A j \in 1..Len(c.opts) :
      c.opts[j].src = "token" => Subscript(cols, c.opts[j].arg).err = "none"

\* One call with its arguments evaluated to colour values.
EvalCall(c, cols) ==
   [call |-> c.call, style |-> c.style,
    opts |-> [j \in 1..Len(c.opts) |->
                [k |-> c.opts[j].k, src |-> c.opts[j].src,
                 v |-> IF c.opts[j].src = "token"
                       THEN Value(cols, c.opts[j].arg)
                       ELSE c.opts[j].arg]]]

\* The calls of configure_styles run in order against the table cols: each is
\* applied unless evaluating its arguments raises KeyError, which ends the
\* method with the calls before it applied.
RECURSIVE RunStyleCalls(_, _, _, _)
RunStyleCalls(calls, cols, i, done) ==
   IF i > Len(calls) THEN [err |-> "none", applied |-> done]
   ELSE IF ~CallEvaluates(calls[i], cols)
        THEN [err |-> "KeyError", applied |-> done]
        ELSE RunStyleCalls(calls, cols, i + 1,
                           Append(done, EvalCall(calls[i], cols)))

\* configure_styles (first definition: lines 47-78, second: lines 698-729):
\* the table it assigns and the outcome of its style calls.
configure_styles(defn) ==
   [colors |-> colors_literal(defn),
    run |-> RunStyleCalls(style_calls(defn), colors_literal(defn), 1, <<>>)]

\* ------------------------------------------------------------ strings

\* The characters of the strings the code takes apart: the keys of
\* significado_colores (lines 686-691).
Chars(s) ==
   CASE s = "Rojo (Puka)" ->
        <<"R", "o", "j", "o", " ", "(", "P", "u", "k", "a", ")">>
     [] s = "Dorado/Amarillo (Killu)" ->
        <<"D", "o", "r", "a", "d", "o", "/", "A", "m", "a", "r", "i", "l", "l", "o", " ", "(", "K", "i", "l", "l", "u", ")">>
     [] s = "Azul (Ankas)" ->
        <<"A", "z", "u", "l", " ", "(", "A", "n", "k", "a", "s", ")">>
     [] s = "Verde (Waylla)" ->
        <<"V", "e", "r", "d", "e", " ", "(", "W", "a", "y", "l", "l", "a", ")">>
     [] s = "Negro (Yana)" ->
        <<"N", "e", "g", "r", "o", " ", "(", "Y", "a", "n", "a", ")">>
     [] s = "Blanco (Yurak)" ->
        <<"B", "l", "a", "n", "c", "o", " ", "(", "Y", "u", "r", "a", "k", ")">>
     [] OTHER -> <<>>

\* The string made of the characters cs.
RECURSIVE Join(_)
Join(cs) == IF cs = <<>> THEN "" ELSE Head(cs) \o Join(Tail(cs))

\* str.split(sep) on characters: the parts between the occurrences of the one
\* character sep, empty parts included.
RECURSIVE SplitFrom(_, _, _, _, _)
SplitFrom(cs, sep, i, part, parts) ==
   IF i > Len(cs) THEN Append(parts, part)
   ELSE IF cs[i] = sep
        THEN SplitFrom(cs, sep, i + 1, <<>>, Append(parts, part))
        ELSE SplitFrom(cs, sep, i + 1, Append(part, cs[i]), parts)

Split(cs, sep) == SplitFrom(cs, sep, 1, <<>>, <<>>)

\* str.strip(chars): cs without its leading and trailing characters that are
\* in the set chars.
RECURSIVE LStrip(_, _)
LStrip(cs, chars) ==
   IF cs # <<>> /\ Head(cs) \in chars THEN LStrip(Tail(cs), chars) ELSE cs

RECURSIVE RStrip(_, _)
RStrip(cs, chars) ==
   IF cs # <<>> /\ cs[Len(cs)] \in chars
   THEN RStrip(SubSeq(cs, 1, Len(cs) - 1), chars)
   ELSE cs

\* A strip that takes the characters off the left end only.
Strip_left_only(cs, chars) == LStrip(cs, chars)

Strip(cs, chars) == RStrip(LStrip(cs, chars), chars)

\* ------------------------------------------------------------ widgets

\* The bullet character U+2022 of the list items (lines 847, 922, 1149),
\* written here as an asterisk.
Bullet == "*"

\* ttk.Label(parent, text=..., style=..., font=..., foreground=...) packed in
\* its parent; an argument the call does not give is "".
Label(text, style, font, fg) ==
   [w |-> "Label", text |-> text, style |-> style, font |-> font, fg |-> fg]

\* ttk.Label placed with grid(row=..., column=...).
GridLabel(text, font, row, column) ==
   [w |-> "Label", text |-> text, font |-> font, row |-> row, column |-> column]

\* ttk.Frame(parent, style='TFrame') with the widgets created in it.
Frame(children) == [w |-> "Frame", style |-> "TFrame", children |-> children]

\* scrolledtext.ScrolledText(parent, wrap=tk.WORD, height=..., font=...): an
\* empty text widget in the normal state.
NewText(height) ==
   [w |-> "ScrolledText", height |-> height, text |-> "", state |-> "normal",
    bg |-> "", fg |-> ""]

\* text.insert(tk.INSERT, s): a text widget takes insertions only in the
\* normal state.
TextInsert(t, s) ==
   IF t.state = "normal" THEN [t EXCEPT !.text = t.text \o s] ELSE t

\* text.config(state=..., background=..., foreground=...).
TextConfig(t, state, bg, fg) ==
   [t EXCEPT !.state = state, !.bg = bg, !.fg = fg]

\* A text block that is disabled before its body is inserted.
TextBlock_config_first(body, height, cols) ==
   TextInsert(TextConfig(NewText(height), "disabled",
                         Value(cols, "background"), Value(cols, "text")),
              body)

\* The text block every builder repeats (lines 807-812 and the like): create,
\* insert the body, then config(state='disabled', background=
\* self.colors['background'], foreground=self.colors['text']).
TextBlock(body, height, cols) ==
   TextConfig(TextInsert(NewText(height), body), "disabled",
              Value(cols, "background"), Value(cols, "text"))

\* An item loop that shows each value twice.
ItemFrames_value_twice(d, cols) ==
   [i \in 1..Len(d) |->
      Frame(<<Label(d[i].k, "", "Helvetica 11 bold", Value(cols, "secondary")),
              Label(d[i].v, "", "", ""),
              Label(d[i].v, "", "", "")>>)]

\* The loop over a dict's items that several builders repeat (lines 971-982,
\* 1084-1094, 1113-1123, 1199-1209): per item a frame holding the key as a
\* bold label in self.colors['secondary'] and the value as a label under it.
ItemFrames(d, cols) ==
   [i \in 1..Len(d) |->
      Frame(<<Label(d[i].k, "", "Helvetica 11 bold", Value(cols, "secondary")),
              Label(d[i].v, "", "", "")>>)]

\* A grid loop that wraps one column later.
RECURSIVE GridLoop_three_columns(_, _, _, _, _)
GridLoop_three_columns(items, i, row, col, placed) ==
   IF i > Len(items) THEN placed
   ELSE LET cell == GridLabel(Bullet \o " " \o items[i], "", row, col)
        IN  IF col + 1 > 2
            THEN GridLoop_three_columns(items, i + 1, row + 1, 0,
                                        Append(placed, cell))
            ELSE GridLoop_three_columns(items, i + 1, row, col + 1,
                                        Append(placed, cell))

\* The two-column grid loop (lines 918-927 and 1145-1154): row and col start
\* at 0; each item is placed at (row, col), then col += 1, and past column 1
\* col returns to 0 and row += 1.
RECURSIVE GridLoop(_, _, _, _, _)
GridLoop(items, i, row, col, placed) ==
   IF i > Len(items) THEN placed
   ELSE LET cell == GridLabel(Bullet \o " " \o items[i], "", row, col)
        IN  IF col + 1 > 1
            THEN GridLoop(items, i + 1, row + 1, 0, Append(placed, cell))
            ELSE GridLoop(items, i + 1, row, col + 1, Append(placed, cell))

TwoColumnGrid(items) == GridLoop(items, 1, 0, 0, <<>>)

\* What a tab builder leaves: the exception it raised ("none" when it
\* returned) and the tab it added to the notebook.  notebook.add is the second
\* statement of every builder, so the tab is there even when a later statement
\* raises; the contents built before a raise are not kept, the window of a
\* failed start-up is never shown.
Built(title, cols, children) ==
   [err |-> "none",
    tab |-> [text |-> title, canvas_bg |-> Value(cols, "background"),
             children |-> children]]

Raised(title, e) ==
   [err |-> e, tab |-> [text |-> title, canvas_bg |-> "", children |-> <<>>]]

\* Every key of the set ks can be read from the dict d.
CanRead(d, ks) == \A key \in ks : Subscript(d, key).err = "none"

\* ------------------------------------------------------------ tab builders
\* The builders of the second class definition.  Each takes self.kichwa_data
\* and self.colors and gives what it leaves (Built or Raised).

\* create_overview_tab (lines 777-853).
create_overview_tab(data, cols) ==
   LET title == "Información General" IN
   IF ~CanRead(cols, {"background", "text", "primary"})
      \/ ~CanRead(data, {"informacion_general"})
   THEN Raised(title, "KeyError")
   ELSE
   LET overview_data == Value(data, "informacion_general") IN
   IF ~CanRead(overview_data, {"introduccion", "historia",
                               "distribucion_geografica",
                               "caracteristicas_culturales"})
   THEN Raised(title, "KeyError")
   ELSE
   LET items == Value(overview_data, "caracteristicas_culturales") IN
   Built(title, cols,
      << Label("¿Quiénes son los Kichwas?", "Subtitle.TLabel", "", ""),
         TextBlock(Value(overview_data, "introduccion"), 6, cols),
         Label("Historia", "Subtitle.TLabel", "", ""),
         TextBlock(Value(overview_data, "historia"), 8, cols),
         Label("Distribución Geográfica", "Subtitle.TLabel", "", ""),
         TextBlock(Value(overview_data, "distribucion_geografica"), 4, cols),
         Label("Características Culturales Destacadas", "Subtitle.TLabel", "", "")
      >> \o
      [i \in 1..Len(items) |->
         Frame(<<Label(Bullet, "", "", Value(cols, "primary")),
                 Label(items[i], "", "", "")>>)])

\* create_regions_tab (lines 855-927).
create_regions_tab(data, cols) ==
   LET title == "Regiones" IN
   IF ~CanRead(cols, {"background", "text", "primary"})
      \/ ~CanRead(data, {"regiones"})
   THEN Raised(title, "KeyError")
   ELSE
   LET regiones == Value(data, "regiones") IN
   IF ~CanRead(regiones, {"introduccion", "pueblos"})
   THEN Raised(title, "KeyError")
   ELSE
   LET pueblos == Value(regiones, "pueblos") IN
   IF \E i \in 1..Len(pueblos) :
         ~CanRead(pueblos[i].v, {"descripcion", "comunidades"})
   THEN Raised(title, "KeyError")
   ELSE
   Built(title, cols,
      << Label("Pueblos Kichwas por Regiones Geográficas", "Subtitle.TLabel", "", ""),
         TextBlock(Value(regiones, "introduccion"), 4, cols)
      >> \o
      [i \in 1..Len(pueblos) |->
         Frame(<< Label(pueblos[i].k, "", "Helvetica 13 bold", Value(cols, "primary")),
                  TextBlock(Value(pueblos[i].v, "descripcion"), 4, cols),
                  Label("Comunidades principales:", "", "Helvetica 11 italic", ""),
                  Frame(TwoColumnGrid(Value(pueblos[i].v, "comunidades"))) >>)])

\* A table loop that places row i of the data in row i of the grid.
RECURSIVE VocabularyRows_from_zero(_, _, _)
VocabularyRows_from_zero(rows, i, placed) ==
   IF i >= Len(rows) THEN placed
   ELSE VocabularyRows_from_zero(rows, i + 1,
           placed \o << GridLabel(rows[i + 1][1], "", i, 0),
                        GridLabel(rows[i + 1][2], "", i, 1),
                        GridLabel(rows[i + 1][3], "", i, 2) >>)

\* The vocabulary table of create_language_tab (lines 989-1015): the three
\* headers in row 0, then per row of the data, unpacked into three names, its
\* three labels in row i+1 (i counted from 0).
RECURSIVE VocabularyRows(_, _, _)
VocabularyRows(rows, i, placed) ==
   IF i >= Len(rows) THEN placed
   ELSE LET spanish == rows[i + 1][1]
            kichwa == rows[i + 1][2]
            pron == rows[i + 1][3]
        IN  VocabularyRows(rows, i + 1,
               placed \o << GridLabel(spanish, "", i + 1, 0),
                            GridLabel(kichwa, "", i + 1, 1),
                            GridLabel(pron, "", i + 1, 2) >>)

\* The table with the Kichwa and the pronunciation headers in each other's
\* column.
VocabularyGrid_headers_swapped(rows) ==
   VocabularyRows(rows, 0,
      << GridLabel("Español", "Helvetica 11 bold", 0, 0),
         GridLabel("Kichwa", "Helvetica 11 bold", 0, 2),
         GridLabel("Pronunciación", "Helvetica 11 bold", 0, 1) >>)

VocabularyGrid(rows) ==
   VocabularyRows(rows, 0,
      << GridLabel("Español", "Helvetica 11 bold", 0, 0),
         GridLabel("Kichwa", "Helvetica 11 bold", 0, 1),
         GridLabel("Pronunciación", "Helvetica 11 bold", 0, 2) >>)

\* create_language_tab (lines 929-1039).  Unpacking a row that does not have
\* exactly three entries raises ValueError (line 1007).
create_language_tab(data, cols) ==
   LET title == "Idioma" IN
   IF ~CanRead(cols, {"background", "text", "secondary"})
      \/ ~CanRead(data, {"idioma"})
   THEN Raised(title, "KeyError")
   ELSE
   LET lang_data == Value(data, "idioma") IN
   IF ~CanRead(lang_data, {"descripcion_general", "caracteristicas",
                           "vocabulario_basico", "estado_actual",
                           "variaciones_dialectales"})
   THEN Raised(title, "KeyError")
   ELSE
   LET rows == Value(lang_data, "vocabulario_basico") IN
   IF \E i \in 1..Len(rows) : Len(rows[i]) # 3
   THEN Raised(title, "ValueError")
   ELSE
   Built(title, cols,
      << Label("Kichwa Ecuatoriano (Runa Shimi)", "Subtitle.TLabel", "", ""),
         TextBlock(Value(lang_data, "descripcion_general"), 5, cols),
         Label("Características Lingüísticas", "Subtitle.TLabel", "", "")
      >> \o
      ItemFrames(Value(lang_data, "caracteristicas"), cols) \o
      << Label("Vocabulario Básico", "Subtitle.TLabel", "", ""),
         Frame(VocabularyGrid(rows)),
         Label("Estado Actual del Idioma", "Subtitle.TLabel", "", ""),
         TextBlock(Value(lang_data, "estado_actual"), 6, cols),
         Label("Variaciones Dialectales", "Subtitle.TLabel", "", ""),
         TextBlock(Value(lang_data, "variaciones_dialectales"), 4, cols) >>)

\* create_traditions_tab (lines 1041-1154).
create_traditions_tab(data, cols) ==
   LET title == "Tradiciones" IN
   IF ~CanRead(cols, {"background", "text", "secondary"})
      \/ ~CanRead(data, {"tradiciones"})
   THEN Raised(title, "KeyError")
   ELSE
   LET trad_data == Value(data, "tradiciones") IN
   IF ~CanRead(trad_data, {"introduccion", "festividades", "vestimenta",
                           "artesanias", "musica_danza",
                           "instrumentos_musicales"})
   THEN Raised(title, "KeyError")
   ELSE
   Built(title, cols,
      << Label("Tradiciones y Costumbres", "Subtitle.TLabel", "", ""),
         TextBlock(Value(trad_data, "introduccion"), 4, cols),
         Label("Principales Festividades", "Subtitle.TLabel", "", "")
      >> \o
      ItemFrames(Value(trad_data, "festividades"), cols) \o
      << Label("Vestimenta Tradicional", "Subtitle.TLabel", "", ""),
         TextBlock(Value(trad_data, "vestimenta"), 6, cols),
         Label("Artesanías", "Subtitle.TLabel", "", "")
      >> \o
      ItemFrames(Value(trad_data, "artesanias"), cols) \o
      << Label("Música y Danza", "Subtitle.TLabel", "", ""),
         TextBlock(Value(trad_data, "musica_danza"), 5, cols),
         Label("Instrumentos Musicales Tradicionales", "", "Helvetica 11 bold", ""),
         Frame(TwoColumnGrid(Value(trad_data, "instrumentos_musicales"))) >>)

\* create_worldview_tab (lines 1156-1233).
create_worldview_tab(data, cols) ==
   LET title == "Cosmovisión" IN
   IF ~CanRead(cols, {"background", "text", "secondary"})
      \/ ~CanRead(data, {"cosmovision"})
   THEN Raised(title, "KeyError")
   ELSE
   LET cosmo_data == Value(data, "cosmovision") IN
   IF ~CanRead(cosmo_data, {"introduccion", "principios_fundamentales",
                            "relacion_naturaleza", "medicina_tradicional"})
   THEN Raised(title, "KeyError")
   ELSE
   Built(title, cols,
      << Label("Cosmovisión Kichwa", "Subtitle.TLabel", "", ""),
         TextBlock(Value(cosmo_data, "introduccion"), 4, cols),
         Label("Principios Fundamentales", "Subtitle.TLabel", "", "")
      >> \o
      ItemFrames(Value(cosmo_data, "principios_fundamentales"), cols) \o
      << Label("Relación con la Naturaleza", "Subtitle.TLabel", "", ""),
         TextBlock(Value(cosmo_data, "relacion_naturaleza"), 6, cols),
         Label("Medicina Tradicional", "Subtitle.TLabel", "", ""),
         TextBlock(Value(cosmo_data, "medicina_tradicional"), 6, cols) >>)

\* The title of one colour of create_design_tab (lines 1282-1286): the key is
\* split on ' ', part 0 is the Spanish name and part 1, stripped of '(' and
\* ')', the Kichwa name; the title is "<part 0> - <part 1 stripped>".
ColorTitle(color) ==
   LET parts == Split(Chars(color), " ")
   IN  Join(parts[1]) \o " - " \o Join(Strip(parts[2], {"(", ")"}))

\* create_design_tab (lines 1235-1316).  A key with no space in it has no
\* part 1: color.split(' ')[1] raises IndexError (line 1283).
create_design_tab(data, cols) ==
   LET title == "Diseño Cultural" IN
   IF ~CanRead(cols, {"background", "text", "secondary"})
      \/ ~CanRead(data, {"diseno_cultural"})
   THEN Raised(title, "KeyError")
   ELSE
   LET design_data == Value(data, "diseno_cultural") IN
   IF ~CanRead(design_data, {"introduccion", "significado_colores",
                             "chakana", "disenos_textiles"})
   THEN Raised(title, "KeyError")
   ELSE
   LET significado == Value(design_data, "significado_colores") IN
   IF \E i \in 1..Len(significado) :
         Len(Split(Chars(significado[i].k), " ")) < 2
   THEN Raised(title, "IndexError")
   ELSE
   Built(title, cols,
      << Label("Elementos de Diseño Cultural", "Subtitle.TLabel", "", ""),
         TextBlock(Value(design_data, "introduccion"), 4, cols),
         Label("Significado de los Colores", "Subtitle.TLabel", "", "")
      >> \o
      [i \in 1..Len(significado) |->
         Frame(<<Label(ColorTitle(significado[i].k), "", "Helvetica 11 bold",
                       Value(cols, "secondary")),
                 Label(significado[i].v, "", "", "")>>)] \o
      << Label("La Chakana (Cruz Andina)", "Subtitle.TLabel", "", ""),
         TextBlock(Value(design_data, "chakana"), 4, cols),
         Label("Diseños Textiles", "Subtitle.TLabel", "", ""),
         TextBlock(Value(design_data, "disenos_textiles"), 4, cols) >>)

\* ------------------------------------------------------------ state

VARIABLES
   binding,       \* the class definition the name KichwaInfoSystem is bound to (0: none)
   pc,            \* where the execution of the module is
   err,           \* the exception that ended the run ("none": none)
   attrs,         \* the attributes of the object that have been assigned
   root,          \* the Tk window: title, geometry, minsize, bg
   kichwa_data,   \* self.kichwa_data
   colors,        \* self.colors
   style,         \* the calls made on self.style, in order
   notebook,      \* the tabs of self.notebook, in the order they were added
   next_call,     \* the next tab-builder call of create_widgets
   status_label,  \* the text of self.status_label ("" before it exists)
   about_button,  \* the button "Acerca de" exists
   now,           \* the day of the month on the host's clock
   selected,      \* the index of the selected tab (0: no tab)
   yview,         \* per tab, the scroll position of its canvas
   scrollregion,  \* per tab, the scroll region of its canvas (0: not set)
   dialog,        \* the title of the message box that is open ("": none)
   served,        \* the number of events the event loop has served
   lookups,       \* the lookups made from outside the start-up, with their outcomes
   storage,       \* the files the process has written to
   layout         \* a list handed to the two-column grid loop, and its cells

vars == <<binding, pc, err, attrs, root, kichwa_data, colors, style, notebook,
          next_call, status_label, about_button, now, selected, yview,
          scrollregion, dialog, served, lookups, storage, layout>>

others == <<storage, layout>>
window == <<selected, yview, scrollregion, dialog, served>>
object == <<attrs, root, kichwa_data, colors, style, notebook, next_call,
            status_label, about_button>>

Init ==
   /\ binding = 0
   /\ pc = "module"
   /\ err = "none"
   /\ attrs = {}
   /\ root = [title |-> "", geometry |-> "", minsize |-> "", bg |-> ""]
   /\ kichwa_data = <<>>
   /\ colors = <<>>
   /\ style = <<>>
   /\ notebook = <<>>
   /\ next_call = 1
   /\ status_label = ""
   /\ about_button = FALSE
   /\ now = 1
   /\ selected = 0
   /\ yview = <<>>
   /\ scrollregion = <<>>
   /\ dialog = ""
   /\ served = 0
   /\ lookups = <<>>
   /\ storage = {}
   /\ layout = [phase |-> "idle", items |-> <<>>, cells |-> <<>>]

\* Builders that keep what they have shown: a builder called again, with its
\* tab already in the notebook, adds a tab and fills in nothing.
CallBuilder_once(defn, name, data, cols) ==
   LET res ==
          CASE name = "create_overview_tab" -> create_overview_tab(data, cols)
            [] name = "create_regions_tab" -> create_regions_tab(data, cols)
            [] name = "create_language_tab" -> create_language_tab(data, cols)
            [] name = "create_traditions_tab" -> create_traditions_tab(data, cols)
            [] name = "create_worldview_tab" -> create_worldview_tab(data, cols)
            [] name = "create_design_tab" -> create_design_tab(data, cols)
   IN  IF \E i \in 1..Len(notebook) : notebook[i].text = res.tab.text
       THEN [err |-> res.err, added |-> TRUE,
             tab |-> [res.tab EXCEPT !.children = <<>>]]
       ELSE [err |-> res.err, added |-> TRUE, tab |-> res.tab]

\* Calls in which a method the class does not define does nothing.
CallBuilder_skips_missing(defn, name, data, cols) ==
   IF name \notin MethodsOf(defn)
   THEN [err |-> "none", added |-> FALSE,
         tab |-> [text |-> "", canvas_bg |-> "", children |-> <<>>]]
   ELSE LET res ==
           CASE name = "create_overview_tab" -> create_overview_tab(data, cols)
             [] name = "create_regions_tab" -> create_regions_tab(data, cols)
             [] name = "create_language_tab" -> create_language_tab(data, cols)
             [] name = "create_traditions_tab" -> create_traditions_tab(data, cols)
             [] name = "create_worldview_tab" -> create_worldview_tab(data, cols)
             [] name = "create_design_tab" -> create_design_tab(data, cols)
        IN  [err |-> res.err, added |-> TRUE, tab |-> res.tab]

\* The call self.<name>() of a tab builder on an object of class definition
\* defn: AttributeError when the class does not define the method, otherwise
\* what the builder leaves.  A builder that finds self.colors or
\* self.kichwa_data unassigned raises AttributeError where it first reads
\* it, after it has added its tab.  The bodies are those of the second
\* definition, the one whose objects main() makes; the five builders of the
\* first definition add their tabs in the same way and read no key and no
\* token that those of the second do not read.
CallBuilder(defn, name, data, cols) ==
   IF name \notin MethodsOf(defn)
   THEN [err |-> "AttributeError", added |-> FALSE,
         tab |-> [text |-> "", canvas_bg |-> "", children |-> <<>>]]
   ELSE LET res ==
           CASE name = "create_overview_tab" -> create_overview_tab(data, cols)
             [] name = "create_regions_tab" -> create_regions_tab(data, cols)
             [] name = "create_language_tab" -> create_language_tab(data, cols)
             [] name = "create_traditions_tab" -> create_traditions_tab(data, cols)
             [] name = "create_worldview_tab" -> create_worldview_tab(data, cols)
             [] name = "create_design_tab" -> create_design_tab(data, cols)
        IN  IF {"kichwa_data", "colors"} \subseteq attrs
            THEN [err |-> res.err, added |-> TRUE, tab |-> res.tab]
            ELSE [err |-> "AttributeError", added |-> TRUE,
                  tab |-> Raised(res.tab.text, "AttributeError").tab]

\* ------------------------------------------------------------ start-up

\* The first class statement (line 25) binds the name KichwaInfoSystem.
ExecClassDef1 ==
   /\ pc = "module"
   /\ binding' = 1
   /\ pc' = "class1"
   /\ UNCHANGED <<err, object, now, others, window, lookups>>

\* A second class statement that leaves the name bound as it was.
ExecClassDef2_no_rebind ==
   /\ pc = "class1"
   /\ pc' = "class2"
   /\ UNCHANGED <<binding, err, object, now, others, window, lookups>>

\* The second class statement (line 577) rebinds the name.
ExecClassDef2 ==
   /\ pc = "class1"
   /\ binding' = 2
   /\ pc' = "class2"
   /\ UNCHANGED <<err, object, now, others, window, lookups>>

\* main() is called (lines 1325-1326) and makes the window: root = tk.Tk()
\* (line 1321).
CallMain ==
   /\ pc = "class2"
   /\ root' = [root EXCEPT !.title = "tk"]
   /\ pc' = "construct"
   /\ UNCHANGED <<binding, err, attrs, kichwa_data, colors, style, notebook,
                  next_call, status_label, about_button, now, others, window, lookups>>

\* KichwaInfoSystem(root) enters __init__ of the bound definition, which sets
\* self.root and the window's title, geometry and minimum size (first
\* definition: lines 33-36, second: lines 585-588).
InitWindow ==
   /\ pc = "construct"
   /\ attrs' = attrs \cup {"root"}
   /\ root' = [root EXCEPT
                 !.title = "Sistema de Información - Kichwas de Ecuador",
                 !.geometry = IF binding = 1 THEN "1000x700" ELSE "900x600",
                 !.minsize = IF binding = 1 THEN "800x600" ELSE "800x500"]
   /\ pc' = "load"
   /\ UNCHANGED <<binding, err, kichwa_data, colors, style, notebook,
                  next_call, status_label, about_button, now, others, window, lookups>>

\* A constructor that goes on to the styles without loading the content.
LoadData_skipped ==
   /\ pc = "load"
   /\ pc' = "styles"
   /\ UNCHANGED <<binding, err, attrs, root, kichwa_data, colors, style,
                  notebook, next_call, status_label, about_button, now, others,
                  window, lookups>>

\* self.kichwa_data = self.load_kichwa_data() (lines 39 and 591).
LoadData ==
   /\ pc = "load"
   /\ IF "load_kichwa_data" \in MethodsOf(binding)
      THEN /\ kichwa_data' = load_kichwa_data
           /\ attrs' = attrs \cup {"kichwa_data"}
           /\ pc' = "styles"
           /\ err' = err
      ELSE /\ err' = "AttributeError"
           /\ pc' = "crashed"
           /\ UNCHANGED <<kichwa_data, attrs>>
   /\ UNCHANGED <<binding, root, colors, style, notebook, next_call,
                  status_label, about_button, now, others, window, lookups>>

\* self.configure_styles() (lines 42 and 594): self.style and self.colors are
\* assigned, then the style calls run; the last of them gives the window its
\* background.
ConfigureStyles ==
   /\ pc = "styles"
   /\ LET res == configure_styles(binding)
          applied == res.run.applied
      IN  /\ colors' = res.colors
          /\ attrs' = attrs \cup {"style", "colors"}
          /\ style' = [i \in 1..Len(applied) |-> applied[i]]
          /\ root' = IF res.run.err = "none"
                     THEN [root EXCEPT !.bg = applied[Len(applied)].opts[1].v]
                     ELSE root
          /\ err' = res.run.err
          /\ pc' = IF res.run.err = "none" THEN "widgets" ELSE "crashed"
   /\ UNCHANGED <<binding, kichwa_data, notebook, next_call, status_label,
                  about_button, now, others, window, lookups>>

\* The head of create_widgets (lines 82-93 and 733-744): the main frame, the
\* title label and the empty notebook.
CreateNotebook ==
   /\ pc = "widgets"
   /\ attrs' = attrs \cup {"notebook"}
   /\ notebook' = <<>>
   /\ next_call' = 1
   /\ pc' = "tabs"
   /\ UNCHANGED <<binding, err, root, kichwa_data, colors, style,
                  status_label, about_button, now, others, window, lookups>>

\* Builders that share one surface: each after the first puts its tab in the
\* place of the tab before it.
CallTabBuilder_shared_surface ==
   /\ pc = "tabs"
   /\ next_call <= Len(create_widgets_calls(binding))
   /\ LET res == CallBuilder(binding, create_widgets_calls(binding)[next_call],
                             kichwa_data, colors)
      IN  /\ IF res.added /\ notebook = <<>>
             THEN /\ notebook' = Append(notebook, res.tab)
                  /\ yview' = Append(yview, 0)
                  /\ scrollregion' = Append(scrollregion, 0)
                  /\ selected' = 1
             ELSE IF res.added
             THEN /\ notebook' = [notebook EXCEPT ![Len(notebook)] = res.tab]
                  /\ UNCHANGED <<yview, scrollregion, selected>>
             ELSE UNCHANGED <<notebook, yview, scrollregion, selected>>
          /\ err' = res.err
          /\ IF res.err = "none"
             THEN /\ next_call' = next_call + 1
                  /\ pc' = "tabs"
             ELSE /\ next_call' = next_call
                  /\ pc' = "crashed"
   /\ UNCHANGED <<binding, attrs, root, kichwa_data, colors, style,
                  status_label, about_button, now, others, dialog, served,
                  lookups>>

\* The next tab-builder call of create_widgets (lines 96-102 and 747-752).
\* The builder adds its tab to the notebook, which selects the first tab it
\* is given; each tab has a canvas of its own, at the top and with no scroll
\* region yet.
CallTabBuilder ==
   /\ pc = "tabs"
   /\ next_call <= Len(create_widgets_calls(binding))
   /\ LET res == CallBuilder(binding, create_widgets_calls(binding)[next_call],
                             kichwa_data, colors)
      IN  /\ IF res.added
             THEN /\ notebook' = Append(notebook, res.tab)
                  /\ yview' = Append(yview, 0)
                  /\ scrollregion' = Append(scrollregion, 0)
                  /\ selected' = IF notebook = <<>> THEN 1 ELSE selected
             ELSE UNCHANGED <<notebook, yview, scrollregion, selected>>
          /\ err' = res.err
          /\ IF res.err = "none"
             THEN /\ next_call' = next_call + 1
                  /\ pc' = "tabs"
             ELSE /\ next_call' = next_call
                  /\ pc' = "crashed"
   /\ UNCHANGED <<binding, attrs, root, kichwa_data, colors, style,
                  status_label, about_button, now, others, dialog, served, lookups>>

\* strftime('%d-%m-%Y') of the clock, within the one month of the run.
TwoDigits(n) ==
   LET digit == <<"0", "1", "2", "3", "4", "5", "6", "7", "8", "9">>
   IN  digit[(n \div 10) + 1] \o digit[(n % 10) + 1]

FormatDate(day) == TwoDigits(day) \o "-11-2026"

\* The tail of create_widgets, after the last builder returned (lines 104-114
\* and 754-764): the status label with the date of this moment, and the
\* button whose command is self.show_about.  Naming self.show_about raises
\* AttributeError in a class that does not define it.
CreateStatusBar ==
   /\ pc = "tabs"
   /\ next_call > Len(create_widgets_calls(binding))
   /\ status_label' =
         "Desarrollado para diseño culturalmente sensible | Fecha: "
            \o FormatDate(now)
   /\ attrs' = attrs \cup {"status_label"}
   /\ IF "show_about" \in MethodsOf(binding)
      THEN /\ about_button' = TRUE
           /\ pc' = "constructed"
           /\ err' = err
      ELSE /\ about_button' = FALSE
           /\ pc' = "crashed"
           /\ err' = "AttributeError"
   /\ UNCHANGED <<binding, root, kichwa_data, colors, style, notebook,
                  next_call, now, others, window, lookups>>

\* root.mainloop() (line 1323): the window is shown and events are served.
EnterMainloop ==
   /\ pc = "constructed"
   /\ pc' = "mainloop"
   /\ UNCHANGED <<binding, err, object, now, others, window, lookups>>

\* ------------------------------------------------------------ events

\* A notebook that moves the tab the user selects to the front.
SelectTab_moves_to_front ==
   /\ pc = "mainloop"
   /\ served < MaxEvents
   /\ served' = served + 1
   /\ dialog = ""
   /\ \E i \in 1..Len(notebook) :
         /\ i # selected
         /\ selected' = 1
         /\ notebook' = <<notebook[i]>> \o
                         SubSeq(notebook, 1, i - 1) \o
                         SubSeq(notebook, i + 1, Len(notebook))
   /\ UNCHANGED <<binding, pc, err, attrs, root, kichwa_data, colors, style,
                  next_call, status_label, about_button, now, others, yview,
                  scrollregion, dialog, lookups>>

\* The user selects another tab; the notebook, not the application, keeps
\* which tab is selected.
SelectTab ==
   /\ pc = "mainloop"
   /\ served < MaxEvents
   /\ served' = served + 1
   /\ dialog = ""
   /\ \E i \in 1..Len(notebook) :
         /\ i # selected
         /\ selected' = i
   /\ UNCHANGED <<binding, pc, err, object, now, others, yview, scrollregion, dialog,
                  lookups>>

\* The scrollbar of the selected tab moves its canvas (command=canvas.yview,
\* lines 785-786 and the like).  A canvas whose scroll region is not set has
\* nothing to scroll over.
Scroll ==
   /\ pc = "mainloop"
   /\ served < MaxEvents
   /\ served' = served + 1
   /\ dialog = ""
   /\ selected \in 1..Len(notebook)
   /\ scrollregion[selected] # 0
   /\ \E pos \in 0..MaxScroll :
         /\ pos # yview[selected]
         /\ yview' = [yview EXCEPT ![selected] = pos]
   /\ UNCHANGED <<binding, pc, err, object, now, others, selected, scrollregion,
                  dialog, lookups>>

\* A <Configure> handler that drops the content of the tab it has laid out.
OnConfigure_drops_topic ==
   /\ pc = "mainloop"
   /\ served < MaxEvents
   /\ served' = served + 1
   /\ selected \in 1..Len(notebook)
   /\ scrollregion[selected] # Len(notebook[selected].children)
   /\ scrollregion' =
         [scrollregion EXCEPT ![selected] = Len(notebook[selected].children)]
   /\ kichwa_data' = SetItem(kichwa_data, kichwa_data[selected].k, <<>>)
   /\ UNCHANGED <<binding, pc, err, attrs, root, colors, style, notebook,
                  next_call, status_label, about_button, now, others, selected, yview,
                  dialog, lookups>>

\* The handler bound to <Configure> on a tab's scrollable frame (lines
\* 789-792 and the like): canvas.configure(scrollregion=canvas.bbox("all")).
\* The frame of the tab on display is the one laid out; the extent of its
\* contents is counted in widgets.
OnConfigure ==
   /\ pc = "mainloop"
   /\ served < MaxEvents
   /\ served' = served + 1
   /\ selected \in 1..Len(notebook)
   /\ scrollregion[selected] # Len(notebook[selected].children)
   /\ scrollregion' =
         [scrollregion EXCEPT ![selected] = Len(notebook[selected].children)]
   /\ UNCHANGED <<binding, pc, err, object, now, others, selected, yview, dialog,
                  lookups>>

\* An About handler that also repaints: it writes a token of the table.
show_about_repaints ==
   /\ pc = "mainloop"
   /\ served < MaxEvents
   /\ served' = served + 1
   /\ about_button
   /\ dialog = ""
   /\ dialog' = "Acerca de"
   /\ colors' = SetItem(colors, "text", "#000000")
   /\ UNCHANGED <<binding, pc, err, attrs, root, kichwa_data, style, notebook,
                  next_call, status_label, about_button, now, others, selected, yview,
                  scrollregion, lookups>>

\* An About handler that also brings the date of the status bar up to date.
show_about_restamps ==
   /\ pc = "mainloop"
   /\ served < MaxEvents
   /\ served' = served + 1
   /\ about_button
   /\ dialog = ""
   /\ dialog' = "Acerca de"
   /\ status_label' =
         "Desarrollado para diseño culturalmente sensible | Fecha: "
            \o FormatDate(now)
   /\ UNCHANGED <<binding, pc, err, attrs, root, kichwa_data, colors, style,
                  notebook, next_call, about_button, now, others, selected,
                  yview, scrollregion, lookups>>

\* show_about (lines 766-775), the command of the button: a modal message box
\* with a fixed text.
show_about ==
   /\ pc = "mainloop"
   /\ served < MaxEvents
   /\ served' = served + 1
   /\ about_button
   /\ dialog = ""
   /\ dialog' = "Acerca de"
   /\ UNCHANGED <<binding, pc, err, object, now, others, selected, yview,
                  scrollregion, lookups>>

\* The user dismisses the message box and showinfo returns.
DismissAbout ==
   /\ pc = "mainloop"
   /\ served < MaxEvents
   /\ served' = served + 1
   /\ dialog # ""
   /\ dialog' = ""
   /\ UNCHANGED <<binding, pc, err, object, now, others, selected, yview,
                  scrollregion, lookups>>

\* A close handler that hides the window and lets the event loop run on.
CloseWindow_withdraws ==
   /\ pc = "mainloop"
   /\ root.geometry # "withdrawn"
   /\ root' = [root EXCEPT !.geometry = "withdrawn"]
   /\ UNCHANGED <<binding, pc, err, attrs, kichwa_data, colors, style,
                  notebook, next_call, status_label, about_button, now,
                  others, window, lookups>>

\* The user closes the window.  The code registers no handler for it, so the
\* toolkit's own applies: the window is destroyed, with the message box if
\* one is open, mainloop returns and main() ends (line 1323).  Where the
\* open message box keeps the window from being closed, this step is not
\* taken with the box open.
CloseWindow ==
   /\ pc = "mainloop"
   /\ dialog' = ""
   /\ pc' = "exited"
   /\ UNCHANGED <<binding, err, object, now, others, selected, yview,
                  scrollregion, served, lookups>>

\* A clock whose passing days are written to the status bar.
Tick_refreshes ==
   /\ pc \notin {"exited", "crashed"}
   /\ now < 1 + MaxDay
   /\ now' = now + 1
   /\ status_label' =
         IF status_label = "" THEN ""
         ELSE "Desarrollado para diseño culturalmente sensible | Fecha: "
                 \o FormatDate(now + 1)
   /\ UNCHANGED <<binding, pc, err, attrs, root, kichwa_data, colors, style,
                  notebook, next_call, about_button, window, lookups, others>>

\* A day passes on the host's clock while the program runs.
Tick ==
   /\ pc \notin {"exited", "crashed"}
   /\ now < 1 + MaxDay
   /\ now' = now + 1
   /\ UNCHANGED <<binding, pc, err, object, window, lookups, others>>

Startup ==
   \/ ExecClassDef1
   \/ ExecClassDef2
   \/ CallMain
   \/ InitWindow
   \/ LoadData
   \/ ConfigureStyles
   \/ CreateNotebook
   \/ CallTabBuilder
   \/ CreateStatusBar
   \/ EnterMainloop

Next ==
   \/ Startup
   \/ SelectTab
   \/ Scroll
   \/ OnConfigure
   \/ show_about
   \/ DismissAbout
   \/ CloseWindow
   \/ Tick

Spec == Init /\ [][Next]_vars

\* ------------------------------------------------------------ toolkit errors
\* Any call into the toolkit can raise tk.TclError.  __init__ and main()
\* catch nothing (lines 583-597 and 1320-1323), so the exception leaves the
\* constructor and main(): root.mainloop() is not reached.

\* A start-up that catches the error and goes on with the next step.
ToolkitError_caught ==
   /\ pc = "tabs"
   /\ next_call <= Len(create_widgets_calls(binding))
   /\ err = "none"
   /\ err' = "none"
   /\ next_call' = next_call + 1
   /\ UNCHANGED <<binding, pc, attrs, root, kichwa_data, colors, style,
                  notebook, status_label, about_button, now, others, window,
                  lookups>>

\* A toolkit call of the step start-up is at raises: in configure_styles, in
\* the head of create_widgets, in a tab builder (before or after it has
\* added its tab), or in the tail of create_widgets.
ToolkitError ==
   /\ pc \in {"styles", "widgets", "tabs"}
   /\ err' = "TclError"
   /\ pc' = "crashed"
   /\ IF pc = "tabs" /\ next_call <= Len(create_widgets_calls(binding))
      THEN LET res == CallBuilder(binding,
                                  create_widgets_calls(binding)[next_call],
                                  kichwa_data, colors)
           IN  \/ UNCHANGED <<notebook, yview, scrollregion, selected>>
               \/ /\ res.added
                  /\ notebook' = Append(notebook,
                                        Raised(res.tab.text, "TclError").tab)
                  /\ yview' = Append(yview, 0)
                  /\ scrollregion' = Append(scrollregion, 0)
                  /\ selected' = IF notebook = <<>> THEN 1 ELSE selected
      ELSE UNCHANGED <<notebook, yview, scrollregion, selected>>
   /\ UNCHANGED <<binding, attrs, root, kichwa_data, colors, style, next_call,
                  status_label, about_button, now, others, dialog, served,
                  lookups>>

NextFault ==
   \/ Next
   \/ ToolkitError

SpecFault == Init /\ [][NextFault]_vars

\* ------------------------------------------------------------ grid layout
\* The two-column grid loop of create_regions_tab and create_traditions_tab
\* applied to lists of any length and content, not only the three lists of
\* the content (of 12, 4 and 6 items).

\* The lists handed to the loop have at most this many items.
MaxItems == 4

\* The items the lists are made of: communities of line 620.
ItemNames == {"Otavalo", "Karanki", "Kayambi"}

ItemLists == UNION {[1..n -> ItemNames] : n \in 0..MaxItems}

\* A list is handed to the loop.
GiveItems ==
   /\ layout.phase = "idle"
   /\ \E items \in ItemLists :
         layout' = [phase |-> "given", items |-> items, cells |-> <<>>]
   /\ UNCHANGED <<binding, pc, err, object, now, storage, window, lookups>>

\* The loop runs over the list (lines 918-927 and 1145-1154).
PlaceItems ==
   /\ layout.phase = "given"
   /\ layout' = [layout EXCEPT !.phase = "placed",
                               !.cells = TwoColumnGrid(layout.items)]
   /\ UNCHANGED <<binding, pc, err, object, now, storage, window, lookups>>

NextGrid ==
   \/ GiveItems
   \/ PlaceItems

SpecGrid == Init /\ [][NextGrid]_vars

\* ------------------------------------------------------------ first definition
\* The methods of the first class definition called on an object of it, as
\* they can be while the name is bound to it (lines 25-569).  Its __init__
\* cannot reach them, it ends at line 39 for want of load_kichwa_data; they
\* are called here on an object that has what the lines of __init__ before
\* the call would have assigned, with or without the content.

\* configure_styles() or create_widgets() of the first definition is called.
CallMethodOfFirst ==
   /\ pc = "class1"
   /\ binding = 1
   /\ \E method \in {"configure_styles", "create_widgets"} :
      \E given \in SUBSET {"kichwa_data"} :
         /\ method \in MethodsOf(binding)
         /\ kichwa_data' = IF "kichwa_data" \in given
                           THEN load_kichwa_data ELSE <<>>
         /\ root' = [root EXCEPT
                       !.title = "Sistema de Información - Kichwas de Ecuador",
                       !.geometry = "1000x700",
                       !.minsize = "800x600"]
         /\ IF method = "configure_styles"
            THEN /\ attrs' = {"root"} \cup given
                 /\ colors' = colors
                 /\ pc' = "styles"
            ELSE /\ attrs' = {"root", "style", "colors"} \cup given
                 /\ colors' = colors_literal(binding)
                 /\ pc' = "widgets"
   /\ UNCHANGED <<binding, err, style, notebook, next_call, status_label,
                  about_button, now, others, window, lookups>>

NextFirst ==
   \/ Next
   \/ CallMethodOfFirst

SpecFirst == Init /\ [][NextFirst]_vars

\* ------------------------------------------------------------ lookups
\* The two lookups the code makes everywhere, self.kichwa_data[key] and
\* self.colors[name], made on the constructed object with keys it has and
\* keys it does not have.  Each is recorded with its outcome.

\* At most this many lookups are recorded in a run.
MaxLookups == 2

\* The topic keys tried: those of the content and one that is absent.
TopicKeysTried == Keys(load_kichwa_data) \cup {"nonexistent"}

\* The token names tried: those of the table and the two other names the
\* first definition looks up (lines 62 and 65).
TokenNamesTried == Keys(colors_literal(2)) \cup {"#8B2323", "red"}

\* self.kichwa_data[key]
LookupTopic ==
   /\ pc = "mainloop"
   /\ Len(lookups) < MaxLookups
   /\ \E key \in TopicKeysTried :
         LET r == Subscript(kichwa_data, key)
         IN  /\ kichwa_data' = r.d
             /\ lookups' = Append(lookups,
                   [op |-> "topic", arg |-> key, err |-> r.err])
   /\ UNCHANGED <<binding, pc, err, attrs, root, colors, style, notebook,
                  next_call, status_label, about_button, now, others, window>>

\* self.colors[name]
LookupColor ==
   /\ pc = "mainloop"
   /\ Len(lookups) < MaxLookups
   /\ \E name \in TokenNamesTried :
         LET r == Subscript(colors, name)
         IN  /\ colors' = r.d
             /\ lookups' = Append(lookups,
                   [op |-> "color", arg |-> name, err |-> r.err,
                    v |-> IF r.found THEN Value(colors, name) ELSE ""])
   /\ UNCHANGED <<binding, pc, err, attrs, root, kichwa_data, style, notebook,
                  next_call, status_label, about_button, now, others, window>>

NextLookup ==
   \/ Startup
   \/ LookupTopic
   \/ LookupColor

SpecLookup == Init /\ [][NextLookup]_vars

\* ------------------------------------------------------------ rendering again
\* A tab builder called again on the constructed object: it renders its topic
\* once more, into a frame of its own that it adds to the notebook.

\* At most this many further renderings are made in a run.
MaxRenders == 3

RenderAgain ==
   /\ pc = "mainloop"
   /\ Len(notebook) < Len(create_widgets_calls(binding)) + MaxRenders
   /\ \E n \in 1..Len(create_widgets_calls(binding)) :
         LET res == CallBuilder(binding, create_widgets_calls(binding)[n],
                                kichwa_data, colors)
         IN  /\ res.added
             /\ notebook' = Append(notebook, res.tab)
             /\ yview' = Append(yview, 0)
             /\ scrollregion' = Append(scrollregion, 0)
             /\ err' = res.err
   /\ UNCHANGED <<binding, pc, attrs, root, kichwa_data, colors, style,
                  next_call, status_label, about_button, now, others, selected,
                  dialog, served, lookups>>

NextRender ==
   \/ Startup
   \/ RenderAgain

SpecRender == Init /\ [][NextRender]_vars

\* ------------------------------------------------------------ properties

\* Start-up has completed: the constructor has returned.
StartedUp == pc \in {"constructed", "mainloop", "exited"}

\* The titles of the tabs of the notebook, in their order.
TabTitles == [i \in 1..Len(notebook) |-> notebook[i].text]

\* The titles the builders of overview, regions, language, traditions,
\* worldview and design give their tabs (lines 780, 858, 932, 1044, 1159, 1238).
FixedOrder ==
   <<"Información General", "Regiones", "Idioma", "Tradiciones",
     "Cosmovisión", "Diseño Cultural">>

\* C1, as stated: after start-up completes the notebook holds exactly 7 tabs.
C1_SevenTabs == StartedUp => Len(notebook) = 7

\* C1, amended: after start-up completes the notebook holds exactly 6 tabs.
C1_SixTabs == StartedUp => Len(notebook) = 6

C1_Witness == pc = "constructed" /\ Len(notebook) = 6

\* C2: during start-up the tabs are added in the fixed order overview,
\* regions, language, traditions, worldview, design.  In every state the tabs
\* of the notebook are the first tabs of that order; a step leaves the
\* notebook as it is or adds one tab at its end; and once start-up has
\* completed every topic has its tab, once.
C2_TabOrder ==
   /\ [](/\ Len(notebook) <= Len(FixedOrder)
         /\ \A i \in 1..Len(notebook) : TabTitles[i] = FixedOrder[i]
         /\ StartedUp => TabTitles = FixedOrder)
   /\ [][\/ notebook' = notebook
         \/ \E tab \in {notebook'[Len(notebook')]} :
               notebook' = Append(notebook, tab)]_vars

C2_Witness ==
   /\ pc = "tabs"
   /\ Len(notebook) = 4
   /\ TabTitles[4] = "Tradiciones"

\* C3: a lookup of a topic key that the content does not have raises
\* KeyError (the not-found error) and leaves the content as it was.
C3_FailedLookup ==
   [][(/\ Len(lookups') = Len(lookups) + 1
       /\ lookups'[Len(lookups')].op = "topic"
       /\ lookups'[Len(lookups')].arg \notin Keys(kichwa_data))
      => (/\ lookups'[Len(lookups')].err = "KeyError"
          /\ kichwa_data' = kichwa_data)]_vars

C3_Witness ==
   \E i \in 1..Len(lookups) :
      lookups[i].op = "topic" /\ lookups[i].arg = "nonexistent"

\* C4, as stated: a lookup of a token name that the table does not have
\* falls back to a default token instead of raising.
C4_UnknownTokenFallsBack ==
   \A i \in 1..Len(lookups) :
      (lookups[i].op = "color" /\ lookups[i].arg \notin Keys(colors_literal(2)))
         => /\ lookups[i].err = "none"
            /\ lookups[i].v \in {colors_literal(2)[j].v : j \in 1..Len(colors_literal(2))}

\* C5: every topic key of the content maps to at least one content field.
C5_TopicsNonEmpty ==
   "kichwa_data" \in attrs =>
      /\ kichwa_data # <<>>
      /\ \A key \in Keys(kichwa_data) :
            /\ Subscript(kichwa_data, key).err = "none"
            /\ Len(Value(kichwa_data, key)) > 0

C5_Witness == "kichwa_data" \in attrs /\ pc = "styles"

\* C6: the vocabulary table has exactly 10 rows of exactly 3 entries each,
\* and unpacking a row into three names never fails while the language tab is
\* built.
C6_VocabularyRows ==
   "kichwa_data" \in attrs =>
      LET rows == Value(Value(kichwa_data, "idioma"), "vocabulario_basico")
      IN  /\ Len(rows) = 10
          /\ \A i \in 1..Len(rows) : Len(rows[i]) = 3
          /\ err # "ValueError"

C6_Witness ==
   /\ pc = "tabs"
   /\ next_call = 4
   /\ Len(notebook) = 3
   /\ TabTitles[3] = "Idioma"

\* A frame holds a label with this text at this cell of its grid.
HasCell(frame, text, row, column) ==
   \E j \in 1..Len(frame.children) :
      LET c == frame.children[j]
      IN  /\ "row" \in DOMAIN c
          /\ c.text = text
          /\ c.row = row
          /\ c.column = column

\* C7: the language topic holds the row ("Hola", "Imanalla",
\* "Imanalla (imanalya)"), and the language tab shows a table whose header is
\* ("Español", "Kichwa", "Pronunciación") in columns 0, 1, 2 of row 0 and
\* which has that row.
C7_VocabularyTable ==
   StartedUp =>
      /\ \E n \in 1..Len(Value(Value(kichwa_data, "idioma"), "vocabulario_basico")) :
            Value(Value(kichwa_data, "idioma"), "vocabulario_basico")[n]
               = <<"Hola", "Imanalla", "Imanalla (imanalya)">>
      /\ \E i \in 1..Len(notebook) :
            /\ notebook[i].text = "Idioma"
            /\ \E j \in 1..Len(notebook[i].children) :
                  LET f == notebook[i].children[j]
                  IN  /\ f.w = "Frame"
                      /\ HasCell(f, "Español", 0, 0)
                      /\ HasCell(f, "Kichwa", 0, 1)
                      /\ HasCell(f, "Pronunciación", 0, 2)
                      /\ \E r \in 1..Len(f.children) :
                            /\ HasCell(f, "Hola", r, 0)
                            /\ HasCell(f, "Imanalla", r, 1)
                            /\ HasCell(f, "Imanalla (imanalya)", r, 2)

C7_Witness ==
   /\ pc = "mainloop"
   /\ selected = 3
   /\ notebook[selected].text = "Idioma"

\* What is compared of a rendered widget: its kind, its text and, of a frame,
\* the same of the widgets in it.
RECURSIVE Structure(_)
Structure(wd) ==
   IF wd.w = "Frame"
   THEN [w |-> wd.w,
         children |-> [j \in 1..Len(wd.children) |-> Structure(wd.children[j])]]
   ELSE [w |-> wd.w, text |-> wd.text]

TabStructure(tab) == [j \in 1..Len(tab.children) |-> Structure(tab.children[j])]

C9_ResolveStable ==
   [][("colors" \in attrs) =>
         \A name \in TokenNamesTried :
            /\ Subscript(colors', name).err = Subscript(colors, name).err
            /\ HasKey(colors, name) => Value(colors', name) = Value(colors, name)]_vars

C9_Witness ==
   /\ pc = "mainloop"
   /\ dialog = "Acerca de"
   /\ "colors" \in attrs

\* C10: once start-up has assigned the content, no tab builder and no event
\* handler changes it.
C10_ContentFixed ==
   [][("kichwa_data" \in attrs) => kichwa_data' = kichwa_data]_vars

C10_Witness ==
   /\ pc = "mainloop"
   /\ "kichwa_data" \in attrs
   /\ selected = 2
   /\ scrollregion[selected] # 0
   /\ yview[selected] # 0

\* The colours of the token table.
TokenValues == {colors[i].v : i \in 1..Len(colors)}

\* Every widget of a list of widgets, with those inside its frames.
RECURSIVE Widgets(_)
Widgets(ws) ==
   UNION { {ws[i]} \cup (IF ws[i].w = "Frame" THEN Widgets(ws[i].children) ELSE {})
           : i \in 1..Len(ws) }

\* The colours given to one widget ("": the option was not given).
WidgetColours(wd) ==
   {wd[f] : f \in DOMAIN wd \cap {"fg", "bg"}} \ {""}

\* C11: no style and no widget configured during start-up is given a colour
\* that is not the value of a key of the token table: the colours of the
\* style calls, the window's background, and the colours of every tab's
\* canvas and widgets are all values of the table.
C11_ColoursFromTokens ==
   /\ \A i \in 1..Len(style) : \A j \in 1..Len(style[i].opts) :
         /\ style[i].opts[j].src = "token"
         /\ style[i].opts[j].v \in TokenValues
   /\ root.bg \in TokenValues \cup {""}
   /\ \A i \in 1..Len(notebook) :
         /\ notebook[i].canvas_bg \in TokenValues \cup {""}
         /\ \A wd \in Widgets(notebook[i].children) :
               WidgetColours(wd) \subseteq TokenValues

\* The first text of a field of the content as load_kichwa_data writes it
\* (lines 601-695): a field is a text, a list of texts, a dict of texts, the
\* list of vocabulary rows, or the dict of peoples.
FirstText(field, v) ==
   CASE field \in {"caracteristicas_culturales", "instrumentos_musicales"} ->
        v[1]
     [] field \in {"caracteristicas", "festividades", "artesanias",
                   "principios_fundamentales", "significado_colores"} ->
        v[1].v
     [] field = "vocabulario_basico" -> v[1][1]
     [] field = "pueblos" -> Value(v[1].v, "descripcion")
     [] OTHER -> v

\* The widget wd, or a widget inside it, displays the text s, as it is or as
\* a bullet item.
Shows(wd, s) ==
   \E x \in Widgets(<<wd>>) :
      /\ x.w # "Frame"
      /\ x.text \in {s, Bullet \o " " \o s}

\* The place, counted from the top of the tab, of the first widget that
\* displays the text s (0: no widget does).
Position(tab, s) ==
   IF \E j \in 1..Len(tab.children) : Shows(tab.children[j], s)
   THEN CHOOSE j \in 1..Len(tab.children) :
           /\ Shows(tab.children[j], s)
           /\ \A h \in 1..(j - 1) : ~Shows(tab.children[h], s)
   ELSE 0

\* C12: within each tab the fields are rendered in the order they have in
\* the topic's data: of any two fields of a topic, the one that comes first
\* in the loaded data is displayed above the other.  The i-th tab renders
\* the i-th topic.
C12_SectionsInDataOrder ==
   \A i \in 1..Len(notebook) :
      (i <= Len(kichwa_data) /\ notebook[i].children # <<>>) =>
         LET topic == kichwa_data[i].v IN
         \A a, b \in 1..Len(topic) :
            a < b =>
               /\ Position(notebook[i], FirstText(topic[a].k, topic[a].v)) > 0
               /\ Position(notebook[i], FirstText(topic[a].k, topic[a].v))
                     < Position(notebook[i], FirstText(topic[b].k, topic[b].v))

\* C13: start-up assigns the content, then the style tokens, and only then
\* runs the tab builders: the tokens are never assigned without the content,
\* a builder runs only when both are assigned and hold what load_kichwa_data
\* and configure_styles give, and the content is assigned once, in a step
\* that finds it unassigned and the notebook empty; no attribute is ever
\* unassigned again.
C13_StartupOrder ==
   /\ [](("colors" \in attrs) => ("kichwa_data" \in attrs))
   /\ []((pc = "tabs" \/ notebook # <<>>) =>
            /\ {"kichwa_data", "colors"} \subseteq attrs
            /\ kichwa_data = load_kichwa_data
            /\ colors = colors_literal(binding))
   /\ [][/\ attrs \subseteq attrs'
         /\ (kichwa_data' # kichwa_data) =>
               /\ "kichwa_data" \notin attrs
               /\ "kichwa_data" \in attrs'
               /\ "colors" \notin attrs
               /\ notebook = <<>>]_vars

C13_Witness ==
   /\ pc = "tabs"
   /\ Len(notebook) = 2
   /\ {"kichwa_data", "colors"} \subseteq attrs
   /\ notebook[2].children # <<>>

\* C14: a step that opens or closes the About box changes nothing else.  The
\* box is the one fixed dialog; the tabs and their order, the content, the
\* style tokens, the text of the status bar, the selected tab and the scroll
\* positions are the same after the step as before it, whatever tab switches
\* and scrolling came before.  The box goes away without being dismissed
\* only when the window is closed under it.
C14_AboutChangesNothingElse ==
   [][(dialog' # dialog) =>
         /\ dialog' \in {"", "Acerca de"}
         /\ notebook' = notebook
         /\ kichwa_data' = kichwa_data
         /\ colors' = colors
         /\ style' = style
         /\ status_label' = status_label
         /\ selected' = selected
         /\ yview' = yview
         /\ \/ pc' = pc
            \/ pc' = "exited" /\ dialog' = ""]_vars

C14_Witness ==
   /\ pc = "mainloop"
   /\ dialog = "Acerca de"
   /\ selected = 3
   /\ yview[3] # 0
   /\ now > 1

\* C15: after start-up no step changes anything of the application but the
\* selected tab and the scroll positions: the notebook keeps its tabs, their
\* count and their order, and the object's attributes, the content, the
\* tokens, the styles and the status bar stay as start-up left them.
C15_OnlySelectionChanges ==
   [][StartedUp =>
         /\ TabTitles' = TabTitles
         /\ Len(notebook') = Len(notebook)
         /\ object' = object
         /\ binding' = binding
         /\ err' = err]_vars

C15_Witness ==
   /\ pc = "mainloop"
   /\ Len(notebook) = 6
   /\ selected = 6
   /\ scrollregion[6] # 0
   /\ yview[6] # 0
   /\ dialog = ""

\* C16: closing the window ends the process.  In every state with the event
\* loop running a step to the end of main() is possible, the event loop is
\* left in no other way, nothing happens after the end, and at no point has
\* the process written a file.
C16_CloseEnds ==
   /\ [](pc = "mainloop" => ENABLED (Next /\ pc' = "exited"))
   /\ [][(pc = "mainloop" /\ pc' # "mainloop") => pc' = "exited"]_vars
   /\ [][pc # "exited"]_vars
   /\ [](storage = {})

C16_Witness ==
   /\ pc = "exited"
   /\ err = "none"
   /\ storage = {}
   /\ selected = 2
   /\ yview[2] # 0

\* C17: a start-up step that raises ends the run.  An error leaves the
\* program crashed, nothing happens after that, so the event loop is not
\* entered; and whenever the event loop runs, no error has occurred and the
\* window has all the tabs, each with its contents.
C17_NoPartialFailure ==
   /\ [](err # "none" => pc = "crashed")
   /\ [][pc # "crashed"]_vars
   /\ [](pc = "mainloop" =>
            /\ err = "none"
            /\ TabTitles = FixedOrder
            /\ \A i \in 1..Len(notebook) : notebook[i].children # <<>>)

C17_Witness ==
   /\ pc = "crashed"
   /\ err = "TclError"
   /\ Len(notebook) = 3
   /\ notebook[3].children = <<>>
   /\ notebook[2].children # <<>>

\* The text areas of the notebook: every ScrolledText of every tab.
TextAreas ==
   UNION { {wd \in Widgets(notebook[i].children) : wd.w = "ScrolledText"}
           : i \in 1..Len(notebook) }

\* C18: every text area of the notebook is disabled and holds a body that is
\* not empty, in every state from the one in which its tab is added; and a
\* tab that is in the notebook is never changed by a later step, so no text
\* area is enabled again or inserted into.
C18_TextAreasReadOnly ==
   /\ [](\A t \in TextAreas : t.state = "disabled" /\ t.text # "")
   /\ [][\A i \in 1..Len(notebook) :
            /\ i <= Len(notebook')
            /\ notebook'[i] = notebook[i]]_vars

C18_Witness ==
   /\ pc = "mainloop"
   /\ served >= 3
   /\ \E t \in TextAreas : t.state = "disabled" /\ t.text # ""
   /\ \A i \in 1..6 :
         \E t \in Widgets(notebook[i].children) : t.w = "ScrolledText"

\* C19: the two-column loop places the k-th item of a list (k from 0) at row
\* k div 2 and column k mod 2, for a list of any length: one cell per item,
\* the column is 0 or 1, no two items are in the same cell, and the cells
\* follow the list row by row, left before right.
C19_TwoColumnGrid ==
   layout.phase = "placed" =>
      /\ Len(layout.cells) = Len(layout.items)
      /\ \A k \in 0..(Len(layout.items) - 1) :
            /\ layout.cells[k + 1].text = Bullet \o " " \o layout.items[k + 1]
            /\ layout.cells[k + 1].row = k \div 2
            /\ layout.cells[k + 1].column = k % 2
            /\ layout.cells[k + 1].column \in {0, 1}
      /\ \A j, k \in 1..Len(layout.cells) :
            j < k =>
               /\ <<layout.cells[j].row, layout.cells[j].column>>
                     # <<layout.cells[k].row, layout.cells[k].column>>
               /\ \/ layout.cells[j].row < layout.cells[k].row
                  \/ /\ layout.cells[j].row = layout.cells[k].row
                     /\ layout.cells[j].column < layout.cells[k].column

C19_Witness ==
   /\ layout.phase = "placed"
   /\ Len(layout.items) = 3
   /\ layout.items[1] = layout.items[3]
   /\ layout.cells[3].row = 1
   /\ layout.cells[3].column = 0

\* The frames of a tab that hold the vocabulary table: those with the header
\* "Español" at row 0, column 0.
VocabularyFrames(tab) ==
   {tab.children[j] : j \in {h \in 1..Len(tab.children) :
                                /\ tab.children[h].w = "Frame"
                                /\ HasCell(tab.children[h], "Español", 0, 0)}}

\* The texts placed at one cell of a frame's grid.
TextsAt(frame, row, column) ==
   {frame.children[j].text :
       j \in {h \in 1..Len(frame.children) :
                 /\ frame.children[h].row = row
                 /\ frame.children[h].column = column}}

\* C20: the language tab has one vocabulary table.  Its grid has one label
\* per cell, in columns 0, 1, 2 of rows 0 to the number of tuples: row 0
\* holds the header, and row i+1 holds the i-th tuple of the data (i from 0),
\* entry by entry, so no tuple is in the header's row and each tuple has a
\* row of its own.
C20_VocabularyGrid ==
   \A t \in 1..Len(notebook) :
      (notebook[t].text = "Idioma" /\ notebook[t].children # <<>>) =>
         LET rows == Value(Value(kichwa_data, "idioma"), "vocabulario_basico")
             frames == VocabularyFrames(notebook[t])
         IN  /\ Cardinality(frames) = 1
             /\ \A f \in frames :
                   /\ Len(f.children) = 3 * (Len(rows) + 1)
                   /\ \A j \in 1..Len(f.children) :
                         /\ f.children[j].column \in {0, 1, 2}
                         /\ f.children[j].row \in 0..Len(rows)
                   /\ \A j, h \in 1..Len(f.children) :
                         (j # h) =>
                            <<f.children[j].row, f.children[j].column>>
                               # <<f.children[h].row, f.children[h].column>>
                   /\ TextsAt(f, 0, 0) = {"Español"}
                   /\ TextsAt(f, 0, 1) = {"Kichwa"}
                   /\ TextsAt(f, 0, 2) = {"Pronunciación"}
                   /\ \A i \in 0..(Len(rows) - 1) : \A c \in 0..2 :
                         TextsAt(f, i + 1, c) = {rows[i + 1][c + 1]}

C20_Witness ==
   /\ pc = "constructed"
   /\ \E t \in 1..Len(notebook) :
         /\ notebook[t].text = "Idioma"
         /\ \E f \in VocabularyFrames(notebook[t]) :
               /\ Len(f.children) = 33
               /\ HasCell(f,
                     Value(Value(kichwa_data, "idioma"), "vocabulario_basico")[10][2],
                     10, 1)

\* C21: a tab builder adds one tab, at the end, and leaves the tabs that are
\* there as they are: while the builders run, the notebook holds as many tabs
\* as builders have returned, and the step of a builder that returns makes
\* the notebook one tab longer with the earlier tabs, contents included,
\* unchanged.
C21_OneTabPerBuilder ==
   /\ [](pc = "tabs" => Len(notebook) = next_call - 1)
   /\ [][(pc = "tabs" /\ next_call' = next_call + 1) =>
            /\ Len(notebook') = Len(notebook) + 1
            /\ SubSeq(notebook', 1, Len(notebook)) = notebook
            /\ notebook'[Len(notebook')].children # <<>>]_vars

C21_Witness ==
   /\ pc = "tabs"
   /\ next_call = 5
   /\ Len(notebook) = 4
   /\ TabTitles[4] = "Tradiciones"

\* The frames among the widgets at the top of a tab, in their order.
FramesOf(tab) ==
   SelectSeq(tab.children, LAMBDA wd : wd.w = "Frame")

\* C22: every key of the colour-meaning map splits on a space into at least
\* two parts, so building the design tab raises no IndexError; and the design
\* tab shows, per colour and in the order of the map, the title "<Spanish
\* name> - <Kichwa name>" with no parenthesis left, "Rojo (Puka)" giving
\* "Rojo - Puka", above the colour's meaning.
C22_ColorTitles ==
   /\ err # "IndexError"
   /\ ("kichwa_data" \in attrs) =>
         LET significado ==
                Value(Value(kichwa_data, "diseno_cultural"), "significado_colores")
         IN  /\ Keys(significado) # {}
             /\ \A key \in Keys(significado) :
                   Len(Split(Chars(key), " ")) >= 2
             /\ \A t \in 1..Len(notebook) :
                   (notebook[t].text = "Diseño Cultural"
                       /\ notebook[t].children # <<>>) =>
                      LET frames == FramesOf(notebook[t])
                      IN  /\ [i \in 1..Len(frames) |-> frames[i].children[1].text]
                                = << "Rojo - Puka", "Dorado/Amarillo - Killu",
                                     "Azul - Ankas", "Verde - Waylla",
                                     "Negro - Yana", "Blanco - Yurak" >>
                          /\ [i \in 1..Len(frames) |-> frames[i].children[2].text]
                                = [i \in 1..Len(significado) |-> significado[i].v]

C22_Witness ==
   /\ Len(notebook) = 6
   /\ notebook[6].text = "Diseño Cultural"
   /\ Len(FramesOf(notebook[6])) = 6
   /\ FramesOf(notebook[6])[2].children[1].text = "Dorado/Amarillo - Killu"
   /\ pc = "tabs"

\* C23: the object main() makes is of the later class definition.  From the
\* call of main() on the name is bound to the second definition; the window
\* gets the geometry the later __init__ sets, the token table is the later
\* configure_styles's, no builder named only by the earlier create_widgets
\* is called and no call fails for want of a method, and the constructed
\* window ends with the design tab.
C23_LaterDefinitionInEffect ==
   /\ (pc \notin {"module", "class1"}) => binding = 2
   /\ ("root" \in attrs) =>
         /\ root.geometry = "900x600"
         /\ root.minsize = "800x500"
   /\ ("colors" \in attrs) => colors = colors_literal(2)
   /\ (pc = "tabs") =>
         \A i \in 1..(next_call - 1) :
            /\ create_widgets_calls(binding)[i]
                  \notin {"create_demographics_tab", "create_cultural_design_tab"}
            /\ create_widgets_calls(binding)[i] \in MethodsOf(2)
   /\ err # "AttributeError"
   /\ StartedUp =>
         /\ Len(notebook) = Len(create_widgets_calls(2))
         /\ notebook[Len(notebook)].text = "Diseño Cultural"
         /\ about_button

C23_Witness ==
   /\ pc = "constructed"
   /\ binding = 2
   /\ root.geometry = "900x600"
   /\ Value(colors, "text") = "#343e40"
   /\ notebook[6].text = "Diseño Cultural"

\* The fields the builders of the second definition read, per topic key they
\* read (lines 801, 887, 893, 957, 1065, 1180, 1259 and the subscripts that
\* follow each).
FieldsRead ==
   << [k |-> "informacion_general",
       v |-> {"introduccion", "historia", "distribucion_geografica",
              "caracteristicas_culturales"}],
      [k |-> "regiones", v |-> {"introduccion", "pueblos"}],
      [k |-> "idioma",
       v |-> {"descripcion_general", "caracteristicas", "vocabulario_basico",
              "estado_actual", "variaciones_dialectales"}],
      [k |-> "tradiciones",
       v |-> {"introduccion", "festividades", "vestimenta", "artesanias",
              "musica_danza", "instrumentos_musicales"}],
      [k |-> "cosmovision",
       v |-> {"introduccion", "principios_fundamentales",
              "relacion_naturaleza", "medicina_tradicional"}],
      [k |-> "diseno_cultural",
       v |-> {"introduccion", "significado_colores", "chakana",
              "disenos_textiles"}] >>

\* The token names the builders of the second definition look up.
TokensRead == {"background", "text", "primary", "secondary"}

\* C24: in the class in effect every key that is read is there.  The content
\* has every topic key and every field the builders read, and each people of
\* the regions has its two fields; the token table has every name the style
\* calls and the builders look up; so no step of start-up ends in a KeyError,
\* start-up does not crash, and every tab of the constructed window has its
\* contents.
C24_NoLookupError ==
   /\ err # "KeyError"
   /\ pc # "crashed"
   /\ ("kichwa_data" \in attrs) =>
         /\ \A topic \in Keys(FieldsRead) :
               /\ HasKey(kichwa_data, topic)
               /\ Value(FieldsRead, topic) \subseteq Keys(Value(kichwa_data, topic))
         /\ LET pueblos == Value(Value(kichwa_data, "regiones"), "pueblos")
            IN  \A i \in 1..Len(pueblos) :
                   {"descripcion", "comunidades"} \subseteq Keys(pueblos[i].v)
   /\ ("colors" \in attrs) =>
         /\ TokensRead \subseteq Keys(colors)
         /\ \A i \in 1..Len(style_calls(binding)) :
               \A j \in 1..Len(style_calls(binding)[i].opts) :
                  style_calls(binding)[i].opts[j].src = "token" =>
                     style_calls(binding)[i].opts[j].arg \in Keys(colors)
   /\ StartedUp =>
         \A t \in 1..Len(notebook) : notebook[t].children # <<>>

C24_Witness ==
   /\ pc = "tabs"
   /\ next_call = 6
   /\ err = "none"
   /\ notebook[5].text = "Cosmovisión"
   /\ notebook[5].children # <<>>

\* The texts of a field of the content that are to be displayed: the text,
\* the items of a list, the values of a dict, the Spanish word of each
\* vocabulary row, and of the peoples their descriptions and communities.
FieldTexts(field, v) ==
   CASE field \in {"caracteristicas_culturales", "instrumentos_musicales"} ->
        {v[i] : i \in 1..Len(v)}
     [] field \in {"caracteristicas", "festividades", "artesanias",
                   "principios_fundamentales", "significado_colores"} ->
        {v[i].v : i \in 1..Len(v)}
     [] field = "vocabulario_basico" -> {v[i][1] : i \in 1..Len(v)}
     [] field = "pueblos" ->
        {Value(v[i].v, "descripcion") : i \in 1..Len(v)}
           \cup UNION { {Value(v[i].v, "comunidades")[n]
                           : n \in 1..Len(Value(v[i].v, "comunidades"))}
                        : i \in 1..Len(v) }
     [] OTHER -> {v}

\* How many of the widgets ws, those inside frames included, display the
\* text s, as it is or as a bullet item.
RECURSIVE Occurrences(_, _)
Occurrences(ws, s) ==
   IF ws = <<>> THEN 0
   ELSE (IF Head(ws).w = "Frame" THEN Occurrences(Head(ws).children, s)
         ELSE IF Head(ws).text \in {s, Bullet \o " " \o s} THEN 1 ELSE 0)
        + Occurrences(Tail(ws), s)

\* C25: when the constructor has returned, every field of the content is on
\* display exactly once.  The notebook has one tab per topic, and each text
\* of each field of the i-th topic is displayed by exactly one widget of the
\* i-th tab and by no widget of any other tab.
C25_EveryFieldOnce ==
   (pc = "constructed") =>
      /\ Len(notebook) = Len(kichwa_data)
      /\ \A i \in 1..Len(kichwa_data) :
            LET topic == kichwa_data[i].v IN
            \A f \in 1..Len(topic) :
               \A s \in FieldTexts(topic[f].k, topic[f].v) :
                  \A t \in 1..Len(notebook) :
                     Occurrences(notebook[t].children, s)
                        = (IF t = i THEN 1 ELSE 0)

C25_Witness ==
   /\ pc = "constructed"
   /\ Len(notebook) = 6
   /\ Occurrences(notebook[4].children,
                  Value(Value(kichwa_data, "tradiciones"), "vestimenta")) = 1
   /\ Occurrences(notebook[4].children,
                  Value(Value(kichwa_data, "tradiciones"),
                        "instrumentos_musicales")[6]) = 1

\* C26: the status bar and the About button exist only when every tab
\* builder has returned; the text the status bar gets carries the date of the
\* step that creates it; and once it has its text no step changes it,
\* whatever is selected, scrolled or opened and however many days pass.
C26_StatusBarFixed ==
   /\ []((status_label # "" \/ about_button) =>
            /\ next_call > Len(create_widgets_calls(binding))
            /\ TabTitles = FixedOrder)
   /\ [][(status_label = "" /\ status_label' # "") =>
            status_label' =
               "Desarrollado para diseño culturalmente sensible | Fecha: "
                  \o FormatDate(now)]_vars
   /\ [][(status_label # "") =>
            /\ status_label' = status_label
            /\ about_button' = about_button]_vars

C26_Witness ==
   /\ pc = "mainloop"
   /\ now = 2
   /\ status_label =
         "Desarrollado para diseño culturalmente sensible | Fecha: 01-11-2026"
   /\ served > 0

\* C27: configure_styles of the first definition does not complete.  Neither
\* '#8B2323' nor 'red' is a key of the table it assigns, and the step that
\* runs it ends the run with KeyError at its first style call, the lookup of
\* '#8B2323': the table is assigned, no style call has been applied and the
\* window has no background.
C27_FirstStylesFail ==
   /\ []({"#8B2323", "red"} \cap Keys(colors_literal(1)) = {})
   /\ [][(binding = 1 /\ pc = "styles" /\ pc' # "styles") =>
            /\ pc' = "crashed"
            /\ err' = "KeyError"
            /\ "colors" \in attrs'
            /\ colors' = colors_literal(1)
            /\ style' = <<>>
            /\ root'.bg = ""]_vars

C27_Witness ==
   /\ binding = 1
   /\ pc = "crashed"
   /\ err = "KeyError"
   /\ colors = colors_literal(1)
   /\ style = <<>>
   /\ root.bg = ""

\* C28: create_widgets of the first definition names seven builders, of
\* which the sixth and the seventh are defined in neither class.  Run on an
\* object of the first definition it adds at most five tabs, does not get
\* past its sixth call, which ends the run with AttributeError, and creates
\* neither the status bar nor the About button.
C28_FirstWidgetsFail ==
   /\ [](/\ Len(create_widgets_calls(1)) = 7
         /\ create_widgets_calls(1)[6] = "create_demographics_tab"
         /\ create_widgets_calls(1)[7] = "create_cultural_design_tab"
         /\ {create_widgets_calls(1)[6], create_widgets_calls(1)[7]}
               \cap (MethodsOf(1) \cup MethodsOf(2)) = {})
   /\ [](binding = 1 =>
            /\ Len(notebook) <= 5
            /\ next_call <= 6
            /\ status_label = ""
            /\ ~about_button
            /\ pc \notin {"constructed", "mainloop", "exited"})
   /\ [][(binding = 1 /\ pc = "tabs" /\ next_call = 6 /\ pc' # pc) =>
            /\ pc' = "crashed"
            /\ err' = "AttributeError"
            /\ notebook' = notebook]_vars

C28_Witness ==
   /\ binding = 1
   /\ pc = "crashed"
   /\ err = "AttributeError"
   /\ next_call = 6
   /\ Len(notebook) = 5
   /\ notebook[5].children # <<>>
   /\ status_label = ""

====
